---- MODULE Spec2Model ----
(***************************************************************************)
(* Marketing-audit Telegram bot: local storage (users_settings,            *)
(* users_limits, pending_results), the result persistence service          *)
(* (write_or_defer, flush_pending_to_user_sheet, convert_json_to_row), the *)
(* audit orchestrator (run_audit) and the /set_limit admin command.        *)
(*                                                                         *)
(* Every coroutine is a process of the single asyncio event loop.  A step  *)
(* of a process is the code between two suspension points: every storage   *)
(* call awaits run_in_executor and so suspends, the HTTP fetch and the LLM *)
(* call suspend, while ensure_headers / write_row call gspread             *)
(* synchronously and never suspend.  Spec runs the calls one after         *)
(* another; any storage call and any spreadsheet call may fail, up to      *)
(* MaxFaults times in a behaviour.                                         *)
(***************************************************************************)
EXTENDS Integers, Sequences, FiniteSets, TLC

VARIABLES
    users_settings,   \* user_id -> sheet_id, None when the user has no row
    users_limits,     \* user_id -> [exists, current, max_limit]
    pending_results,  \* the rows of pending_results, in insertion (id) order
    sheets,           \* sheet_id -> the rows of its first worksheet
    procs,            \* the running coroutines
    calls,            \* number of top-level calls started so far
    faults,           \* number of injected storage / API failures so far
    okRuns,           \* history: user_id -> run_audit calls that returned ok
    refused,          \* history: user_id -> a run_audit was refused, "limit"
    limitSet,         \* history: user_id -> set_limit was called for the user
    conversation,     \* user_id -> state of the ConversationHandler
    updates,          \* number of Telegram updates processed so far
    last,             \* history: the last update and the handler it got
    scheduled,        \* task -> number of the request that scheduled it
    replies,          \* the requests whose result was sent, in sending order
    lock_path,        \* inode the lock file's path names, 0 when no file
    inodes,           \* inode -> [content, flock] of the files opened there
    bots,             \* bot process -> [pc, fd]
    fn_call,          \* the function called on its own, with its arguments
    fn_result         \* what that call returned

\* the dialogue with the users, and the single-instance lock of the processes
chatVars == <<conversation, updates, last, scheduled, replies>>
lockVars == <<lock_path, inodes, bots>>
\* a function called outside the running bot
fnVars == <<fn_call, fn_result>>
\* everything a running bot works on
runVars ==
    <<users_settings, users_limits, pending_results, sheets, procs, calls,
      faults, okRuns, refused, limitSet, chatVars>>

vars == <<users_settings, users_limits, pending_results, sheets, procs,
          calls, faults, okRuns, refused, limitSet, chatVars, lockVars, fnVars>>

----------------------------------------------------------------------------
(* Bounds of the model *)

\* settings.default_user_limit (10 unless configured otherwise)
default_user_limit == 1
\* top-level calls (run_audit, write_or_defer, flush, handlers) per behaviour
MaxCalls == 4
\* injected failures per behaviour
MaxFaults == 1
\* Telegram updates processed per behaviour
MaxUpdates == 5
\* bot processes started per behaviour
MaxBots == 3
\* tokens of a string given to normalize_url
MaxUrlLen == 4
\* executions of a wrapped operation whose outcome is drawn
MaxRuns == 3
\* core/retry.py: stop=stop_after_attempt(2)
stop_after_attempt == 2

Users == {"u1", "u2"}
SheetIds == {"s1", "s2"}
\* process 0 is the update loop, which runs one handler at a time; the
\* others are tasks url_message_handler creates with create_task
HandlerId == 0
TaskId == 1
TaskIds == {TaskId, 2}
ProcIds == {HandlerId} \cup TaskIds
None == "None"

----------------------------------------------------------------------------
(* core/utils.py: normalize_url.  A URL is a sequence of lexical tokens. *)

SchemeTokens == {"http://", "https://"}

RECURSIVE lstrip(_)
lstrip(s) == IF s # <<>> /\ Head(s) = " " THEN lstrip(Tail(s)) ELSE s

RECURSIVE rstrip(_)
rstrip(s) ==
    IF s # <<>> /\ s[Len(s)] = " " THEN rstrip(SubSeq(s, 1, Len(s) - 1)) ELSE s

strip(s) == rstrip(lstrip(s))

lower(tok) ==
    CASE tok = "A" -> "a"
      [] tok = "WWW." -> "www."
      [] OTHER -> tok

\* index of the first "/" in s, Len(s) + 1 when there is none
RECURSIVE FirstSlash(_, _)
FirstSlash(s, i) ==
    IF i > Len(s) \/ s[i] = "/" THEN i ELSE FirstSlash(s, i + 1)

normalize_url(s) ==
    IF s = <<>> THEN <<>>
    ELSE LET url0 == strip(s) IN
         IF url0 = <<>> THEN <<>>
         ELSE LET url == IF Head(url0) \in SchemeTokens
                         THEN url0 ELSE <<"https://">> \o url0
                  rest == Tail(url)
                  cut == FirstSlash(rest, 1)
                  rawloc == SubSeq(rest, 1, cut - 1)
                  rawpath == SubSeq(rest, cut, Len(rest))
                  loc == [i \in 1 .. Len(rawloc) |-> lower(rawloc[i])]
                  netloc == IF loc # <<>> /\ Head(loc) = "www."
                            THEN Tail(loc) ELSE loc
                  path == IF rawpath = <<"/">> THEN <<>> ELSE rawpath
              IN \* urlparse raises ValueError on an unbalanced "[" in the netloc
                 IF \E i \in 1 .. Len(rawloc) : rawloc[i] = "["
                 THEN <<>>
                 ELSE <<"https://">> \o netloc \o path

----------------------------------------------------------------------------
(* storage/sqlite.py: the statements, as functions of the table contents *)

NoLimitRow == [exists |-> FALSE, current |-> 0, max_limit |-> 0]

\* SELECT sheet_id FROM users_settings WHERE user_id = ?
get_user_sheet_id(S, user_id) == S[user_id]

\* a statement that stores nothing
BindingNotStored(S, user_id, sheet_id) == S

\* INSERT OR REPLACE INTO users_settings
set_user_sheet_id(S, user_id, sheet_id) == [S EXCEPT ![user_id] = sheet_id]

\* INSERT OR REPLACE in place of INSERT OR IGNORE
EnsureReplacing(L, user_id, default_limit) ==
    [L EXCEPT ![user_id] =
        [exists |-> TRUE, current |-> 0, max_limit |-> default_limit]]

\* INSERT OR IGNORE INTO users_limits (user_id, current, max_limit) VALUES (?, 0, ?)
ensure_user_limit(L, user_id, default_limit) ==
    IF L[user_id].exists THEN L
    ELSE [L EXCEPT ![user_id] =
            [exists |-> TRUE, current |-> 0, max_limit |-> default_limit]]

\* the test with the comparison off by one
CanExecuteInclusive(row) == row.current <= row.max_limit

\* can_execute = current < max_limit
CanExecute(row) == row.current < row.max_limit

\* can_run's SELECT and test; False when the row is absent
CanRunQuery(L, user_id) ==
    IF L[user_id].exists THEN CanExecute(L[user_id]) ELSE FALSE

\* an UPDATE that adds 2
IncrementTwice(L, user_id) ==
    IF L[user_id].exists THEN [L EXCEPT ![user_id].current = @ + 2] ELSE L

\* UPDATE users_limits SET current = current + 1 WHERE user_id = ?
increment_counter(L, user_id) ==
    IF L[user_id].exists THEN [L EXCEPT ![user_id].current = @ + 1] ELSE L

\* UPDATE users_limits SET max_limit = ? WHERE user_id = ?
UpdateMaxLimit(L, user_id, n) ==
    IF L[user_id].exists THEN [L EXCEPT ![user_id].max_limit = n] ELSE L

\* an INSERT that stores the result as already written
SaveAsWritten(P, user_id, url, result_json) ==
    Append(P, [id |-> Len(P) + 1, user_id |-> user_id, url |-> url,
               result_json |-> result_json, created_at |-> Len(P) + 1,
               written |-> 1])

\* INSERT INTO pending_results (user_id, url, result_json, created_at);
\* id is AUTOINCREMENT, written defaults to 0, created_at is datetime.now()
save_pending_result(P, user_id, url, result_json) ==
    Append(P, [id |-> Len(P) + 1, user_id |-> user_id, url |-> url,
               result_json |-> result_json, created_at |-> Len(P) + 1,
               written |-> 0])

\* ORDER BY created_at: insert r into the sorted sequence s
RECURSIVE InsertByCreatedAt(_, _)
InsertByCreatedAt(s, r) ==
    IF s = <<>> THEN <<r>>
    ELSE IF r.created_at <= Head(s).created_at THEN <<r>> \o s
    ELSE <<Head(s)>> \o InsertByCreatedAt(Tail(s), r)

RECURSIVE OrderByCreatedAt(_)
OrderByCreatedAt(s) ==
    IF s = <<>> THEN <<>>
    ELSE InsertByCreatedAt(OrderByCreatedAt(Tail(s)), Head(s))

\* the same SELECT without the user_id condition
FetchEveryUser(P, user_id) ==
    LET Unwritten(r) == r.written = 0
    IN SelectSeq(P, Unwritten)

\* the same SELECT with ORDER BY created_at DESC
FetchNewestFirst(P, user_id) ==
    LET Unwritten(r) == r.user_id = user_id /\ r.written = 0
        s == SelectSeq(P, Unwritten)
    IN [i \in 1 .. Len(s) |-> s[Len(s) + 1 - i]]

\* SELECT * FROM pending_results WHERE user_id = ? AND written = 0 ORDER BY created_at
fetch_unwritten_results(P, user_id) ==
    LET Unwritten(r) == r.user_id = user_id /\ r.written = 0
    IN OrderByCreatedAt(SelectSeq(P, Unwritten))

\* DELETE FROM pending_results WHERE id = ?
DeleteWritten(P, result_id) ==
    LET Kept(r) == r.id # result_id IN SelectSeq(P, Kept)

\* UPDATE pending_results SET written = 1 WHERE id = ?
mark_written(P, result_id) ==
    [i \in DOMAIN P |->
        IF P[i].id = result_id THEN [P[i] EXCEPT !.written = 1] ELSE P[i]]

----------------------------------------------------------------------------
(* adapters/sheets.py and services/persist.py: rows and their conversion *)

HeaderRow == [kind |-> "header", user_id |-> None, url |-> <<>>, src |-> 0]

\* ensure_headers when row_values(1) answers: a non-empty first row is left
\* alone, an empty one gets the header row inserted at index 1 (the call
\* whose read raises is worksheet_ensure_headers below)
ensure_headers(rows) == IF rows # <<>> THEN rows ELSE <<HeaderRow>>

\* write_row: ensure_headers, then worksheet.append_row(row_data)
write_row(rows, row_data) == Append(ensure_headers(rows), row_data)

\* the stored documents: "json_ok" is an object holding full_result,
\* "json_bad" is text json.loads rejects
JsonDocs == {"json_ok", "json_bad"}
json_loads_ok(result_json) == result_json = "json_ok"

\* a conversion without the degraded row
ConvertAlwaysData(result_json, user_id, url, src) ==
    [kind |-> "data", user_id |-> user_id, url |-> url, src |-> src]

\* convert_json_to_row: the RowForSheet row, or the "Ошибка обработки" row
\* when parsing or conversion fails.  src records which pending result (0:
\* none, a direct write) the row was made from.
convert_json_to_row(result_json, user_id, url, src) ==
    IF json_loads_ok(result_json)
    THEN [kind |-> "data", user_id |-> user_id, url |-> url, src |-> src]
    ELSE [kind |-> "degraded", user_id |-> user_id, url |-> url, src |-> src]

----------------------------------------------------------------------------
(* core/settings.py and telegram/handlers.py: /set_limit argument handling *)

\* 2^63, the least integer sqlite3 cannot bind to an INTEGER parameter
\* ("OverflowError: Python int too large to convert to SQLite INTEGER")
Huge == "9223372036854775808"

\* the tokens int(s) accepts, among those the model feeds it
IsIntToken(tok) == tok \in {"0", "2", "3", "-1", "101", "202", Huge}

\* the integer is outside the 64-bit range of an SQLite INTEGER
TooLargeForSqlite(tok) == tok = Huge

\* int(s) < 0
IsNegative(tok) == IF TooLargeForSqlite(tok) THEN FALSE ELSE tok = "-1"

\* int(s) on such a token that fits 64 bits
ParseInt(tok) ==
    CASE tok = "0" -> 0
      [] tok = "2" -> 2
      [] tok = "3" -> 3
      [] tok = "-1" -> -1
      [] tok = "101" -> 101
      [] tok = "202" -> 202

\* str.strip() on the tokens of admin_user_ids
StripTok(tok) ==
    CASE tok = " 101" -> "101"
      [] tok = " " -> ""
      [] OTHER -> tok

\* settings.admin_user_ids, split on ","
admin_user_ids == <<" 101", " ">>

\* Settings.get_admin_ids
get_admin_ids ==
    LET NonBlank(x) == StripTok(x) # ""
        kept == SelectSeq(admin_user_ids, NonBlank)
    IN {ParseInt(StripTok(kept[i])) : i \in DOMAIN kept}

\* Settings.is_admin
is_admin(user_id) == user_id \in get_admin_ids

Senders == {101, 202}

\* context.args of the /set_limit messages the model sends
ArgLists == { <<>>, <<"u1">>, <<"u1", "abc">>, <<"u1", "-1">>, <<"u1", "0">>,
              <<"u1", "2">>, <<"u2", "3">>, <<"u1", "2", "0">>,
              <<"u1", Huge>> }

\* the validation of set_limit_command: the reply it sends without touching
\* storage, or "set" when it goes on to call set_limit
SetLimitValidate(sender, args) ==
    IF ~is_admin(sender) THEN "no_rights"
    ELSE IF args = <<>> \/ Len(args) # 2 THEN "usage"
    ELSE IF ~IsIntToken(args[2]) THEN "not_number"
    ELSE IF IsNegative(args[2]) THEN "negative"
    ELSE "set"

----------------------------------------------------------------------------
(* The coroutines: their arguments, local variables, results and history *)

Urls == { <<"http://", "www.", "A", "/">>, <<"[">> }

\* the tables, as a call finds them when it starts
Tables ==
    [settings |-> users_settings, limits |-> users_limits,
     pending |-> pending_results, sheets |-> sheets]

IdleProc ==
    [kind |-> "idle", pc |-> "idle", user |-> None,
     \* arguments and locals
     url |-> <<>>, result_json |-> "", new_sheet |-> None,
     sender |-> 0, args |-> <<>>, new_limit |-> "",
     user_has_sheet |-> FALSE, user_sheet |-> None,
     results |-> <<>>, idx |-> 0, counter |-> 0,
     \* what the call returned
     ok |-> FALSE, reason |-> "", written_now |-> FALSE, count |-> 0,
     raised |-> FALSE, reply |-> "",
     \* history of the call
     fetches |-> 0, llm_calls |-> 0, wod_calls |-> 0, rows_appended |-> 0,
     pend_added |-> 0, incs |-> 0, persisted_before_inc |-> FALSE,
     check_fault |-> FALSE, lookup_fault |-> FALSE, step_raised |-> FALSE,
     write_fault |-> FALSE,
     fetched |-> <<>>, appended |-> <<>>, marked |-> {},
     write_failed |-> {}, mark_failed |-> {},
     snap |-> [settings |-> <<>>, limits |-> <<>>, pending |-> <<>>,
               sheets |-> <<>>],
     faults0 |-> 0]

Merge(r, ch) == [f \in DOMAIN r |-> IF f \in DOMAIN ch THEN ch[f] ELSE r[f]]

\* a fresh coroutine, started with the given arguments
Started(arguments) ==
    Merge(Merge(IdleProc, [snap |-> Tables, faults0 |-> faults]), arguments)

\* the call of r has returned result
Returned(r, result) == Merge([r EXCEPT !.pc = "done"], result)

\* no coroutine is running
Quiet == \A q \in ProcIds : procs[q].pc = "idle"

\* the result dictionaries of run_audit
LimitResult == [ok |-> FALSE, reason |-> "limit"]
InvalidUrlResult == [ok |-> FALSE, reason |-> "invalid_url"]
FetchFailedResult == [ok |-> FALSE, reason |-> "fetch_failed"]
InternalErrorResult == [ok |-> FALSE, reason |-> "internal_error"]

\* no top-level except: the exception reaches the caller
Propagated(r) == Returned([r EXCEPT !.step_raised = TRUE], [raised |-> TRUE])

\* run_audit lines 106-112: the top-level except
Caught(r) == Returned([r EXCEPT !.step_raised = TRUE], InternalErrorResult)

\* the states of the conversation: bot.py line 28, and
\* ConversationHandler.END for a user without a conversation
END == "END"
WAITING_FOR_URL == "WAITING_FOR_URL"
WAITING_FOR_SHEET_URL == "WAITING_FOR_SHEET_URL"

\* no update has been processed yet
NoUpdate ==
    [update |-> "none", user |-> None, data |-> "", text |-> <<>>,
     handler |-> "none", via |-> "none", from |-> END, ok |-> TRUE]

\* the bot processes started on the host, and the inodes their open() calls
\* can create at the lock file's path
Pids == 1 .. MaxBots
Inodes == 1 .. MaxBots
NoFile == [used |-> FALSE, content |-> 0, flock |-> 0]
NewBot == [pc |-> "start", fd |-> 0]

\* no function has been called on its own
NoCall == [fn |-> "none"]

\* a storage or API call fails only while the failure budget lasts
MayFail(ok) == ok \/ faults < MaxFaults
CountFault(ok) == faults' = IF ok THEN faults ELSE faults + 1

Init ==
    /\ users_settings = [u \in Users |-> None]
    /\ users_limits = [u \in Users |-> NoLimitRow]
    /\ pending_results = <<>>
    /\ sheets = [s \in SheetIds |-> <<>>]
    /\ procs = [p \in ProcIds |-> IdleProc]
    /\ calls = 0
    /\ faults = 0
    /\ okRuns = [u \in Users |-> 0]
    /\ refused = [u \in Users |-> FALSE]
    /\ limitSet = [u \in Users |-> FALSE]
    /\ conversation = [u \in Users |-> END]
    /\ updates = 0
    /\ last = NoUpdate
    /\ scheduled = [p \in TaskIds |-> 0]
    /\ replies = <<>>
    /\ lock_path = 0
    /\ inodes = [i \in Inodes |-> NoFile]
    /\ bots = [b \in Pids |-> NewBot]
    /\ fn_call = NoCall
    /\ fn_result = <<>>

----------------------------------------------------------------------------
(* services/run_audit.py: run_audit *)

\* url_message_handler: create_task(run_audit_service(user_id, url, ...))
StartRunAudit(p, u, url) ==
    /\ procs[p].pc = "idle"
    /\ calls < MaxCalls
    /\ calls' = calls + 1
    /\ procs' = [procs EXCEPT ![p] =
            Started([kind |-> "run_audit", pc |-> "ra_ensure", user |-> u,
                     url |-> url])]
    /\ UNCHANGED <<users_settings, users_limits, pending_results, sheets,
                   faults, okRuns, refused, limitSet,
                   chatVars, lockVars, fnVars>>

\* line 36: await ensure_user_limit(user_id, settings.default_user_limit)
RunAuditEnsure(p, ok) ==
    /\ procs[p].pc = "ra_ensure"
    /\ MayFail(ok) /\ CountFault(ok)
    /\ IF ok
       THEN /\ users_limits' = ensure_user_limit(users_limits, procs[p].user,
                                                 default_user_limit)
            /\ procs' = [procs EXCEPT ![p].pc = "cr_ensure"]
       ELSE /\ procs' = [procs EXCEPT ![p] = Caught(@)]
            /\ UNCHANGED users_limits
    /\ UNCHANGED <<users_settings, pending_results, sheets, calls, okRuns,
                   refused, limitSet,
                   chatVars, lockVars, fnVars>>

\* a refusal that comes only after the page has been fetched and analysed
RefusedLate(r) ==
    Returned([r EXCEPT !.fetches = @ + 1, !.llm_calls = @ + 1], LimitResult)

\* run_audit lines 39-44: can_run answered False
Refused(r) == Returned(r, LimitResult)

\* can_run, line 145: its own ensure_user_limit; a failure makes can_run
\* return False, which run_audit reports as "limit"
CanRunEnsure(p, ok) ==
    /\ procs[p].pc = "cr_ensure"
    /\ MayFail(ok) /\ CountFault(ok)
    /\ IF ok
       THEN /\ users_limits' = ensure_user_limit(users_limits, procs[p].user,
                                                 default_user_limit)
            /\ procs' = [procs EXCEPT ![p].pc = "cr_query"]
            /\ UNCHANGED refused
       ELSE /\ procs' = [procs EXCEPT ![p] =
                    Refused([@ EXCEPT !.check_fault = TRUE])]
            /\ refused' = [refused EXCEPT ![procs[p].user] = TRUE]
            /\ UNCHANGED users_limits
    /\ UNCHANGED <<users_settings, pending_results, sheets, calls, okRuns,
                   limitSet,
                   chatVars, lockVars, fnVars>>

\* what run_audit does with can_run's answer (lines 39-55): refuse, or
\* normalize the URL and go on to the fetch
AfterCanRun(r, can_execute) ==
    IF ~can_execute THEN Refused(r)
    ELSE IF normalize_url(r.url) = <<>> THEN Returned(r, InvalidUrlResult)
    ELSE [r EXCEPT !.pc = "fetch", !.url = normalize_url(r.url)]

\* can_run, lines 147-167: the SELECT and the test
CanRunSelect(p, ok) ==
    LET r == procs[p]
        r1 == IF ok THEN AfterCanRun(r, CanRunQuery(users_limits, r.user))
              ELSE Refused([r EXCEPT !.check_fault = TRUE])
    IN /\ r.pc = "cr_query"
       /\ MayFail(ok) /\ CountFault(ok)
       /\ procs' = [procs EXCEPT ![p] = r1]
       /\ refused' = [refused EXCEPT ![r.user] = @ \/ r1.reason = "limit"]
       /\ UNCHANGED <<users_settings, users_limits, pending_results, sheets,
                      calls, okRuns, limitSet,
                      chatVars, lockVars, fnVars>>

\* lines 59-66: get_content_bundle gives text, gives no home text, or raises
FetchOutcomes == {"text", "empty", "error"}

AfterFetch(r, outcome) ==
    CASE outcome = "text" -> [r EXCEPT !.pc = "analyze", !.fetches = @ + 1]
      [] outcome = "empty" ->
            Returned([r EXCEPT !.fetches = @ + 1], FetchFailedResult)
      [] outcome = "error" -> Caught([r EXCEPT !.fetches = @ + 1])

GetContentBundle(p, outcome) ==
    /\ procs[p].pc = "fetch"
    /\ procs' = [procs EXCEPT ![p] = AfterFetch(@, outcome)]
    /\ UNCHANGED <<users_settings, users_limits, pending_results, sheets,
                   calls, faults, okRuns, refused, limitSet,
                   chatVars, lockVars, fnVars>>

\* lines 72-87: analyze_content returns a result, which is serialized, or raises
AfterAnalyze(r, ok) ==
    IF ok THEN [r EXCEPT !.pc = "ra_lookup", !.llm_calls = @ + 1,
                         !.result_json = "json_ok"]
    ELSE Caught([r EXCEPT !.llm_calls = @ + 1])

AnalyzeContent(p, ok) ==
    /\ procs[p].pc = "analyze"
    /\ procs' = [procs EXCEPT ![p] = AfterAnalyze(@, ok)]
    /\ UNCHANGED <<users_settings, users_limits, pending_results, sheets,
                   calls, faults, okRuns, refused, limitSet,
                   chatVars, lockVars, fnVars>>

\* line 90: user_has_sheet = bool(await get_user_sheet_id(user_id)), which
\* is None when the query fails; line 93 then calls write_or_defer
RunAuditLookup(p, ok) ==
    LET r == procs[p] IN
    /\ r.pc = "ra_lookup"
    /\ MayFail(ok) /\ CountFault(ok)
    /\ procs' = [procs EXCEPT ![p] =
            [r EXCEPT !.pc = "wod_lookup",
                      !.user_has_sheet =
                        ok /\ get_user_sheet_id(users_settings, r.user) # None,
                      !.lookup_fault = ~ok,
                      !.wod_calls = @ + 1]]
    /\ UNCHANGED <<users_settings, users_limits, pending_results, sheets,
                   calls, okRuns, refused, limitSet,
                   chatVars, lockVars, fnVars>>

----------------------------------------------------------------------------
(* services/persist.py: write_or_defer *)

\* write_or_defer(user_id, url, result_json) called on its own
StartWriteOrDefer(p, u, result_json) ==
    /\ procs[p].pc = "idle"
    /\ calls < MaxCalls
    /\ calls' = calls + 1
    /\ procs' = [procs EXCEPT ![p] =
            Started([kind |-> "write_or_defer", pc |-> "wod_lookup",
                     user |-> u, url |-> <<"https://", "a">>,
                     result_json |-> result_json, wod_calls |-> 1])]
    /\ UNCHANGED <<users_settings, users_limits, pending_results, sheets,
                   faults, okRuns, refused, limitSet,
                   chatVars, lockVars, fnVars>>

\* write_or_defer has finished: run_audit goes on to increment_counter
AfterPersist(r) ==
    IF r.kind = "run_audit" THEN [r EXCEPT !.pc = "ra_increment"]
    ELSE Returned(r, [raised |-> FALSE])

\* a write_or_defer that logs the failure and returns
PersistSwallowed(r) ==
    IF r.kind = "run_audit" THEN [r EXCEPT !.pc = "ra_increment"]
    ELSE Returned(r, [raised |-> FALSE])

\* write_or_defer re-raises (lines 53-55); run_audit turns it into internal_error
PersistRaised(r) ==
    IF r.kind = "run_audit" THEN Caught(r)
    ELSE Returned([r EXCEPT !.step_raised = TRUE], [raised |-> TRUE])

ApiOutcomes == {"ok", "fail_headers", "fail_row"}

\* lines 28-41: the binding lookup (None when the query fails) and, for a
\* bound user, ensure_headers, convert_json_to_row and write_row, none of
\* which suspends
WriteOrDeferLookup(p, ok, api) ==
    LET r == [procs[p] EXCEPT !.lookup_fault = @ \/ ~ok]
        user_sheet == IF ok THEN get_user_sheet_id(users_settings, r.user)
                      ELSE None
    IN /\ r.pc = "wod_lookup"
       /\ (~ok \/ user_sheet = None) => api = "ok"
       /\ MayFail(ok /\ api = "ok") /\ CountFault(ok /\ api = "ok")
       /\ IF user_sheet = None
          THEN /\ procs' = [procs EXCEPT ![p] = [r EXCEPT !.pc = "wod_save"]]
               /\ UNCHANGED sheets
          ELSE CASE api = "ok" ->
                    /\ sheets' = [sheets EXCEPT ![user_sheet] =
                            write_row(ensure_headers(@),
                                      convert_json_to_row(r.result_json, r.user,
                                                          r.url, 0))]
                    /\ procs' = [procs EXCEPT ![p] =
                            AfterPersist([r EXCEPT !.rows_appended = @ + 1,
                                                   !.user_sheet = user_sheet])]
                 [] api = "fail_headers" ->
                    /\ UNCHANGED sheets
                    /\ procs' = [procs EXCEPT ![p] =
                            PersistRaised([r EXCEPT !.write_fault = TRUE])]
                 [] api = "fail_row" ->
                    /\ sheets' = [sheets EXCEPT ![user_sheet] = ensure_headers(@)]
                    /\ procs' = [procs EXCEPT ![p] =
                            PersistRaised([r EXCEPT !.write_fault = TRUE])]
       /\ UNCHANGED <<users_settings, users_limits, pending_results, calls,
                      okRuns, refused, limitSet,
                      chatVars, lockVars, fnVars>>

\* lines 43-51: save_pending_result for an unbound user
WriteOrDeferSave(p, ok) ==
    LET r == procs[p] IN
    /\ r.pc = "wod_save"
    /\ MayFail(ok) /\ CountFault(ok)
    /\ IF ok
       THEN /\ pending_results' = save_pending_result(pending_results, r.user,
                                                      r.url, r.result_json)
            /\ procs' = [procs EXCEPT ![p] =
                    AfterPersist([r EXCEPT !.pend_added = @ + 1])]
       ELSE /\ UNCHANGED pending_results
            /\ procs' = [procs EXCEPT ![p] = PersistRaised(r)]
    /\ UNCHANGED <<users_settings, users_limits, sheets, calls, okRuns,
                   refused, limitSet,
                   chatVars, lockVars, fnVars>>

\* an ok result that never reports a direct write
OkResultQueued(r) == [ok |-> TRUE, written_now |-> FALSE]

\* run_audit lines 100-104
OkResult(r) == [ok |-> TRUE, written_now |-> r.user_has_sheet]

\* run_audit lines 96-104: increment_counter, then the ok result
RunAuditIncrement(p, ok) ==
    LET r == procs[p] IN
    /\ r.pc = "ra_increment"
    /\ MayFail(ok) /\ CountFault(ok)
    /\ IF ok
       THEN /\ users_limits' = increment_counter(users_limits, r.user)
            /\ okRuns' = [okRuns EXCEPT ![r.user] = @ + 1]
            /\ procs' = [procs EXCEPT ![p] =
                    Returned([r EXCEPT !.incs = @ + 1,
                                       !.persisted_before_inc =
                                           r.rows_appended + r.pend_added = 1],
                             OkResult(r))]
       ELSE /\ UNCHANGED <<users_limits, okRuns>>
            /\ procs' = [procs EXCEPT ![p] = Caught(r)]
    /\ UNCHANGED <<users_settings, pending_results, sheets, calls, refused,
                   limitSet,
                   chatVars, lockVars, fnVars>>

----------------------------------------------------------------------------
(* telegram/handlers.py: sheet_url_message_handler, and
   services/persist.py: flush_pending_to_user_sheet *)

\* sheet_url_message_handler with a link that holds sheet_id
StartSheetHandler(u, sheet_id) ==
    /\ procs[HandlerId].pc = "idle"
    /\ calls < MaxCalls
    /\ calls' = calls + 1
    /\ procs' = [procs EXCEPT ![HandlerId] =
            Started([kind |-> "sheet_handler", pc |-> "sh_bind", user |-> u,
                     new_sheet |-> sheet_id])]
    /\ UNCHANGED <<users_settings, users_limits, pending_results, sheets,
                   faults, okRuns, refused, limitSet,
                   chatVars, lockVars, fnVars>>

\* flush_pending_to_user_sheet(user_id) called on its own
StartFlush(u) ==
    /\ procs[HandlerId].pc = "idle"
    /\ calls < MaxCalls
    /\ calls' = calls + 1
    /\ procs' = [procs EXCEPT ![HandlerId] =
            Started([kind |-> "flush", pc |-> "fl_lookup", user |-> u])]
    /\ UNCHANGED <<users_settings, users_limits, pending_results, sheets,
                   faults, okRuns, refused, limitSet,
                   chatVars, lockVars, fnVars>>

\* handlers.py line 152: await set_user_sheet_id(user_id, sheet_id)
SheetHandlerBind(ok) ==
    LET r == procs[HandlerId] IN
    /\ r.pc = "sh_bind"
    /\ MayFail(ok) /\ CountFault(ok)
    /\ IF ok
       THEN /\ users_settings' = set_user_sheet_id(users_settings, r.user,
                                                   r.new_sheet)
            /\ procs' = [procs EXCEPT ![HandlerId].pc = "fl_lookup"]
       ELSE /\ UNCHANGED users_settings
            /\ procs' = [procs EXCEPT ![HandlerId] =
                    Returned(r, [raised |-> TRUE, reply |-> "error_generic"])]
    /\ UNCHANGED <<users_limits, pending_results, sheets, calls, okRuns,
                   refused, limitSet,
                   chatVars, lockVars, fnVars>>

\* flush_pending_to_user_sheet returns count; the handler then replies
FlushReturn(r, count) ==
    Returned(r, [count |-> count,
                 reply |-> IF r.kind = "sheet_handler" THEN "connected" ELSE ""])

\* persist.py lines 70-73: the binding lookup
FlushLookup(ok) ==
    LET r == [procs[HandlerId] EXCEPT !.lookup_fault = ~ok]
        user_sheet == IF ok THEN get_user_sheet_id(users_settings, r.user)
                      ELSE None
    IN /\ r.pc = "fl_lookup"
       /\ MayFail(ok) /\ CountFault(ok)
       /\ procs' = [procs EXCEPT ![HandlerId] =
               IF user_sheet = None THEN FlushReturn(r, 0)
               ELSE [r EXCEPT !.pc = "fl_fetch", !.user_sheet = user_sheet]]
       /\ UNCHANGED <<users_settings, users_limits, pending_results, sheets,
                      calls, okRuns, refused, limitSet,
                      chatVars, lockVars, fnVars>>

\* a loop without the inner except: the first write_row that fails ends it
LoopAborting(r, i, k) ==
    IF k > 0
    THEN FlushReturn([r EXCEPT !.write_failed = @ \cup {r.results[i].id}],
                     r.counter)
    ELSE IF i <= Len(r.results)
    THEN [r EXCEPT !.pc = "fl_mark", !.idx = i,
                   !.appended = Append(@, r.results[i].id),
                   !.rows_appended = @ + 1]
    ELSE FlushReturn(r, r.counter)

\* persist.py lines 88-109, from record i on: the next k write_row calls
\* fail and those records are skipped; the loop then suspends in
\* mark_written after the first write_row that succeeds, or it ends
LoopProc(r, i, k) ==
    LET j == i + k
        skipped == {r.results[x].id : x \in i .. (j - 1)}
    IN IF j <= Len(r.results)
       THEN [r EXCEPT !.pc = "fl_mark", !.idx = j,
                      !.write_failed = @ \cup skipped,
                      !.appended = Append(@, r.results[j].id),
                      !.rows_appended = @ + 1]
       ELSE FlushReturn([r EXCEPT !.write_failed = @ \cup skipped], r.counter)

LoopRows(r, rows, i, k) ==
    LET j == i + k IN
    IF j <= Len(r.results)
    THEN write_row(rows, convert_json_to_row(r.results[j].result_json, r.user,
                                             r.results[j].url, r.results[j].id))
    ELSE rows

\* persist.py lines 76-94: fetch_unwritten_results ([] when the query
\* fails), ensure_headers (a failure ends the flush with 0), and the loop up
\* to its first suspension
FlushFetch(ok, hdr_ok, k) ==
    LET r == procs[HandlerId]
        results == IF ok THEN fetch_unwritten_results(pending_results, r.user)
                   ELSE <<>>
        r1 == [r EXCEPT !.results = results, !.fetched = results,
                        !.lookup_fault = ~ok]
    IN /\ r.pc = "fl_fetch"
       /\ (~ok \/ results = <<>>) => (hdr_ok /\ k = 0)
       /\ ~hdr_ok => k = 0
       /\ k <= Len(results)
       /\ faults + k + (IF ok /\ hdr_ok THEN 0 ELSE 1) <= MaxFaults
       /\ faults' = faults + k + (IF ok /\ hdr_ok THEN 0 ELSE 1)
       /\ IF results = <<>>
          THEN /\ procs' = [procs EXCEPT ![HandlerId] = FlushReturn(r1, 0)]
               /\ UNCHANGED sheets
          ELSE IF ~hdr_ok
          THEN /\ procs' = [procs EXCEPT ![HandlerId] =
                      FlushReturn([r1 EXCEPT !.step_raised = TRUE], 0)]
               /\ UNCHANGED sheets
          ELSE /\ procs' = [procs EXCEPT ![HandlerId] = LoopProc(r1, 1, k)]
               /\ sheets' = [sheets EXCEPT ![r.user_sheet] =
                      LoopRows(r1, ensure_headers(@), 1, k)]
       /\ UNCHANGED <<users_settings, users_limits, pending_results, calls,
                      okRuns, refused, limitSet,
                      chatVars, lockVars, fnVars>>

\* persist.py lines 96-109: mark_written for the row just written (a failure
\* is caught by the loop's except), counter += 1, and the loop goes on
FlushMark(ok, k) ==
    LET r == procs[HandlerId]
        id == r.results[r.idx].id
        r1 == IF ok THEN [r EXCEPT !.counter = @ + 1, !.marked = @ \cup {id}]
              ELSE [r EXCEPT !.mark_failed = @ \cup {id}]
    IN /\ r.pc = "fl_mark"
       /\ r.idx + k <= Len(r.results)
       /\ faults + k + (IF ok THEN 0 ELSE 1) <= MaxFaults
       /\ faults' = faults + k + (IF ok THEN 0 ELSE 1)
       /\ pending_results' = IF ok THEN mark_written(pending_results, id)
                             ELSE pending_results
       /\ procs' = [procs EXCEPT ![HandlerId] = LoopProc(r1, r.idx + 1, k)]
       /\ sheets' = [sheets EXCEPT ![r.user_sheet] =
              LoopRows(r1, @, r.idx + 1, k)]
       /\ UNCHANGED <<users_settings, users_limits, calls, okRuns, refused,
                      limitSet,
                      chatVars, lockVars, fnVars>>

----------------------------------------------------------------------------
(* telegram/handlers.py: set_limit_command, and storage/sqlite.py: set_limit *)

\* lines 196-222: the checks made before set_limit is called
AfterValidate(r) ==
    LET verdict == SetLimitValidate(r.sender, r.args) IN
    IF verdict = "set"
    THEN [r EXCEPT !.pc = "sl_ensure", !.user = r.args[1],
                   !.new_limit = r.args[2]]
    ELSE Returned(r, [reply |-> verdict])

StartSetLimitCommand(sender, args) ==
    /\ procs[HandlerId].pc = "idle"
    /\ calls < MaxCalls
    /\ calls' = calls + 1
    /\ procs' = [procs EXCEPT ![HandlerId] =
            AfterValidate(Started([kind |-> "set_limit_command",
                                   sender |-> sender, args |-> args]))]
    /\ UNCHANGED <<users_settings, users_limits, pending_results, sheets,
                   faults, okRuns, refused, limitSet,
                   chatVars, lockVars, fnVars>>

\* the handler's outer except (lines 236-239)
HandlerCaught(r) == Returned(r, [raised |-> TRUE, reply |-> "error_generic"])

\* sqlite.py line 193: await ensure_user_limit(user_id, n); binding an
\* integer of more than 64 bits raises OverflowError
SetLimitEnsure(ok) ==
    LET r == procs[HandlerId] IN
    /\ r.pc = "sl_ensure"
    /\ TooLargeForSqlite(r.new_limit) => ok
    /\ MayFail(ok) /\ CountFault(ok)
    /\ IF ok /\ ~TooLargeForSqlite(r.new_limit)
       THEN /\ users_limits' = ensure_user_limit(users_limits, r.user,
                                                 ParseInt(r.new_limit))
            /\ limitSet' = [limitSet EXCEPT ![r.user] = TRUE]
            /\ procs' = [procs EXCEPT ![HandlerId].pc = "sl_update"]
       ELSE /\ UNCHANGED <<users_limits, limitSet>>
            /\ procs' = [procs EXCEPT ![HandlerId] = HandlerCaught(r)]
    /\ UNCHANGED <<users_settings, pending_results, sheets, calls, okRuns,
                   refused,
                   chatVars, lockVars, fnVars>>

\* sqlite.py lines 196-203: the UPDATE of max_limit; the handler then confirms
SetLimitUpdate(ok) ==
    LET r == procs[HandlerId] IN
    /\ r.pc = "sl_update"
    /\ MayFail(ok) /\ CountFault(ok)
    /\ IF ok
       THEN /\ users_limits' = UpdateMaxLimit(users_limits, r.user,
                                              ParseInt(r.new_limit))
            /\ procs' = [procs EXCEPT ![HandlerId] =
                    Returned(r, [reply |-> "limit_set"])]
       ELSE /\ UNCHANGED users_limits
            /\ procs' = [procs EXCEPT ![HandlerId] = HandlerCaught(r)]
    /\ UNCHANGED <<users_settings, pending_results, sheets, calls, okRuns,
                   refused, limitSet,
                   chatVars, lockVars, fnVars>>

----------------------------------------------------------------------------

\* the result of a returned call is handed over (run_audit_service passes it
\* to handle_audit_result, a handler returns to the update loop) and the
\* coroutine ends
Deliver(p) ==
    /\ procs[p].pc = "done"
    /\ procs' = [procs EXCEPT ![p] = IdleProc]
    /\ UNCHANGED <<users_settings, users_limits, pending_results, sheets,
                   calls, faults, okRuns, refused, limitSet,
                   chatVars, lockVars, fnVars>>

\* the calls one after another: a call starts when no other is running
Next ==
    \/ Quiet /\ \E u \in Users, url \in Urls : StartRunAudit(TaskId, u, url)
    \/ \E ok \in BOOLEAN : RunAuditEnsure(TaskId, ok)
    \/ \E ok \in BOOLEAN : CanRunEnsure(TaskId, ok)
    \/ \E ok \in BOOLEAN : CanRunSelect(TaskId, ok)
    \/ \E outcome \in FetchOutcomes : GetContentBundle(TaskId, outcome)
    \/ \E ok \in BOOLEAN : AnalyzeContent(TaskId, ok)
    \/ \E ok \in BOOLEAN : RunAuditLookup(TaskId, ok)
    \/ Quiet /\ \E u \in Users, j \in JsonDocs : StartWriteOrDefer(TaskId, u, j)
    \/ \E ok \in BOOLEAN, api \in ApiOutcomes :
            WriteOrDeferLookup(TaskId, ok, api)
    \/ \E ok \in BOOLEAN : WriteOrDeferSave(TaskId, ok)
    \/ \E ok \in BOOLEAN : RunAuditIncrement(TaskId, ok)
    \/ Quiet /\ \E u \in Users, s \in SheetIds : StartSheetHandler(u, s)
    \/ Quiet /\ \E u \in Users : StartFlush(u)
    \/ \E ok \in BOOLEAN : SheetHandlerBind(ok)
    \/ \E ok \in BOOLEAN : FlushLookup(ok)
    \/ \E ok \in BOOLEAN, hdr_ok \in BOOLEAN, k \in 0 .. MaxFaults :
            FlushFetch(ok, hdr_ok, k)
    \/ \E ok \in BOOLEAN, k \in 0 .. MaxFaults : FlushMark(ok, k)
    \/ Quiet /\ \E sender \in Senders, args \in ArgLists :
            StartSetLimitCommand(sender, args)
    \/ \E ok \in BOOLEAN : SetLimitEnsure(ok)
    \/ \E ok \in BOOLEAN : SetLimitUpdate(ok)
    \/ \E p \in ProcIds : Deliver(p)

Spec == Init /\ [][Next]_vars

\* every awaited call returns or raises (the HTTP clients have timeouts) and
\* the event loop resumes the coroutine that awaits it
SpecFair == Spec /\ WF_vars(Next)

----------------------------------------------------------------------------
(* telegram/bot.py: create_application, and the handlers of
   telegram/handlers.py as the update loop dispatches to them.  The
   application processes one update at a time; a conversation is keyed by
   chat and user, which in a private chat is the user. *)

\* callback data of the inline keyboards
CallbackData == {"start_analysis", "new_analysis", "connect_sheet",
                 "open_sheet"}

\* texts sent as a spreadsheet link, as sequences of tokens; a token of
\* SheetIds is a run of the characters [a-zA-Z0-9-_]
Links ==
    { <<"https://docs.google.com", "/spreadsheets/d/", "s1", "/edit">>,
      <<"https://drive.google.com/open?", "id=", "s2">>,
      <<"id=", "s2", "/spreadsheets/d/", "s1">>,
      <<"/spreadsheets/d/", "/edit">> }

\* re.search(pattern, url) for a pattern  marker([a-zA-Z0-9-_]+) : group 1 of
\* the leftmost match, "" without a match
Search(marker, url) ==
    LET at == {i \in 1 .. Len(url) - 1 :
                   url[i] = marker /\ url[i + 1] \in SheetIds}
    IN IF at = {} THEN ""
       ELSE url[(CHOOSE i \in at : \A j \in at : i <= j) + 1]

\* handlers.py lines 173-191
extract_sheet_id(url) ==
    IF Search("/spreadsheets/d/", url) # ""
    THEN Search("/spreadsheets/d/", url)
    ELSE Search("id=", url)

\* ConversationHandler.check_update with entry_points, states and fallbacks
\* of bot.py lines 79-99, had allow_reentry been left at False
CheckWithoutReentry(state, update) ==
    IF state = END
    THEN IF update = "callback" THEN "button_callback_handler" ELSE "none"
    ELSE IF update = "text" /\ state = WAITING_FOR_URL
         THEN "url_message_handler"
    ELSE IF update = "text" /\ state = WAITING_FOR_SHEET_URL
         THEN "sheet_url_message_handler"
    ELSE IF update = "cmd_start" THEN "start_command"
    ELSE "none"

\* ConversationHandler.check_update with entry_points, states and fallbacks
\* of bot.py lines 79-99: with allow_reentry the entry points are tried in
\* every state, then the handlers of the state, then the fallbacks
conv_handler(state, update) ==
    IF update = "callback" THEN "button_callback_handler"
    ELSE IF state = END THEN "none"
    ELSE IF update = "text" /\ state = WAITING_FOR_URL
         THEN "url_message_handler"
    ELSE IF update = "text" /\ state = WAITING_FOR_SHEET_URL
         THEN "sheet_url_message_handler"
    ELSE IF update = "cmd_start" THEN "start_command"
    ELSE "none"

\* Application.process_update over the handlers added in bot.py lines 71-99,
\* all in group 0: the first handler that accepts the update handles it.
\* via tells whether the conversation handler took the update, and so
\* whether the callback's return value becomes the conversation state
process_update(state, update) ==
    IF update = "cmd_start"
    THEN [via |-> "CommandHandler", handler |-> "start_command"]
    ELSE IF update = "cmd_set_limit"
    THEN [via |-> "CommandHandler", handler |-> "set_limit_command"]
    ELSE IF conv_handler(state, update) # "none"
    THEN [via |-> "ConversationHandler",
          handler |-> conv_handler(state, update)]
    ELSE [via |-> "none", handler |-> "none"]

\* handlers.py lines 49-105: the state button_callback_handler returns;
\* ok is false when a Telegram call or get_service_email raises
button_callback_handler(data, ok) ==
    IF ~ok THEN END
    ELSE IF data \in {"start_analysis", "new_analysis"} THEN WAITING_FOR_URL
    ELSE IF data = "connect_sheet" THEN WAITING_FOR_SHEET_URL
    ELSE END

\* the update loop takes the next update when the handler of the previous
\* one has returned
LoopFree == procs[HandlerId].pc = "idle"

\* the update is counted and remembered
Processed(update, u, data, text, h, ok) ==
    /\ updates < MaxUpdates
    /\ updates' = updates + 1
    /\ last' = [update |-> update, user |-> u, data |-> data, text |-> text,
                handler |-> h.handler, via |-> h.via,
                from |-> conversation[u], ok |-> ok]

\* the number of the next audit request
NextRequest ==
    LET used == {scheduled[p] : p \in TaskIds}
                    \cup {replies[i] : i \in 1 .. Len(replies)} \cup {0}
    IN (CHOOSE n \in used : \A m \in used : m <= n) + 1

\* the command /start (handlers.py lines 17-46): the reply depends on the
\* binding; the returned END reaches the conversation only when the
\* conversation handler dispatched the command
StartCommand(u) ==
    LET h == process_update(conversation[u], "cmd_start") IN
    /\ LoopFree
    /\ Processed("cmd_start", u, "", <<>>, h, TRUE)
    /\ conversation' = IF h.via = "ConversationHandler"
                       THEN [conversation EXCEPT ![u] = END]
                       ELSE conversation
    /\ UNCHANGED <<users_settings, users_limits, pending_results, sheets,
                   procs, calls, faults, okRuns, refused, limitSet,
                   scheduled, replies, lockVars, fnVars>>

\* an inline button is pressed (handlers.py lines 49-105)
ButtonCallback(u, data, ok) ==
    LET h == process_update(conversation[u], "callback") IN
    /\ LoopFree
    /\ MayFail(ok) /\ CountFault(ok)
    /\ Processed("callback", u, data, <<>>, h, ok)
    /\ conversation' = IF h.handler = "button_callback_handler"
                       THEN [conversation EXCEPT
                                ![u] = button_callback_handler(data, ok)]
                       ELSE conversation
    /\ UNCHANGED <<users_settings, users_limits, pending_results, sheets,
                   procs, calls, okRuns, refused, limitSet,
                   scheduled, replies, lockVars, fnVars>>

\* a text message no handler accepts
IgnoredText(u, text) ==
    LET h == process_update(conversation[u], "text") IN
    /\ LoopFree
    /\ h.handler = "none"
    /\ Processed("text", u, "", text, h, TRUE)
    /\ UNCHANGED <<users_settings, users_limits, pending_results, sheets,
                   procs, calls, faults, okRuns, refused, limitSet,
                   conversation, scheduled, replies, lockVars, fnVars>>

\* url_message_handler (handlers.py lines 108-130): reply, create the task,
\* return END; ok is false when the reply raises, and then no task is created
UrlMessage(u, url, ok, p) ==
    LET h == process_update(conversation[u], "text") IN
    /\ LoopFree
    /\ h.handler = "url_message_handler"
    /\ MayFail(ok) /\ CountFault(ok)
    /\ Processed("text", u, "", url, h, ok)
    /\ conversation' = [conversation EXCEPT ![u] = END]
    /\ IF ok
       THEN /\ procs[p].pc = "idle"
            /\ \A q \in TaskIds : procs[q].pc = "idle" => p <= q
            /\ procs' = [procs EXCEPT ![p] =
                    Started([kind |-> "run_audit", pc |-> "ra_ensure",
                             user |-> u, url |-> url])]
            /\ scheduled' = [scheduled EXCEPT ![p] = NextRequest]
       ELSE /\ p = TaskId
            /\ UNCHANGED <<procs, scheduled>>
    /\ UNCHANGED <<users_settings, users_limits, pending_results, sheets,
                   calls, okRuns, refused, limitSet, replies, lockVars, fnVars>>

\* sheet_url_message_handler (handlers.py lines 133-170) up to line 152:
\* without an id it replies and returns WAITING_FOR_SHEET_URL (END when the
\* reply raises); with an id it goes on to store the binding
SheetUrlMessage(u, link, ok) ==
    LET h == process_update(conversation[u], "text")
        sheet_id == extract_sheet_id(link)
    IN /\ LoopFree
       /\ h.handler = "sheet_url_message_handler"
       /\ MayFail(ok) /\ CountFault(ok)
       /\ Processed("text", u, "", link, h, ok)
       /\ IF sheet_id = ""
          THEN /\ conversation' =
                    [conversation EXCEPT
                        ![u] = IF ok THEN WAITING_FOR_SHEET_URL ELSE END]
               /\ UNCHANGED procs
          ELSE /\ ok
               /\ procs' = [procs EXCEPT ![HandlerId] =
                       Started([kind |-> "sheet_handler", pc |-> "sh_bind",
                                user |-> u, new_sheet |-> sheet_id])]
               /\ UNCHANGED conversation
       /\ UNCHANGED <<users_settings, users_limits, pending_results, sheets,
                      calls, okRuns, refused, limitSet,
                      scheduled, replies, lockVars, fnVars>>

\* sheet_url_message_handler returns END, from line 165 or line 170
SheetHandlerReturn ==
    LET r == procs[HandlerId] IN
    /\ r.pc = "done"
    /\ r.kind = "sheet_handler"
    /\ conversation' = [conversation EXCEPT ![r.user] = END]
    /\ procs' = [procs EXCEPT ![HandlerId] = IdleProc]
    /\ UNCHANGED <<users_settings, users_limits, pending_results, sheets,
                   calls, faults, okRuns, refused, limitSet,
                   updates, last, scheduled, replies, lockVars, fnVars>>

\* run_audit_service (run_audit.py lines 115-140): run_audit has returned and
\* handle_audit_result sends the reply of the task; nothing is awaited in
\* between
SendResult(p) ==
    /\ procs[p].pc = "done"
    /\ procs[p].kind = "run_audit"
    /\ replies' = Append(replies, scheduled[p])
    /\ scheduled' = [scheduled EXCEPT ![p] = 0]
    /\ procs' = [procs EXCEPT ![p] = IdleProc]
    /\ UNCHANGED <<users_settings, users_limits, pending_results, sheets,
                   calls, faults, okRuns, refused, limitSet,
                   conversation, updates, last, lockVars, fnVars>>

\* run_audit_service with an await between the return of run_audit and the
\* sending of the reply
Suspended == FALSE

\* a run_audit has returned and its reply is not sent yet
Returning == \E p \in TaskIds : procs[p].pc = "done"

\* the update loop and the background tasks on one event loop: the steps of
\* the tasks and of the running handler interleave at their awaits
NextChat ==
    \/ ~Returning /\ \E u \in Users : StartCommand(u)
    \/ ~Returning /\ \E u \in Users, data \in CallbackData, ok \in BOOLEAN :
            ButtonCallback(u, data, ok)
    \/ ~Returning /\ \E u \in Users, text \in Links : IgnoredText(u, text)
    \/ ~Returning /\ \E u \in Users, url \in Urls, ok \in BOOLEAN,
                        p \in TaskIds : UrlMessage(u, url, ok, p)
    \/ ~Returning /\ \E u \in Users, link \in Links, ok \in BOOLEAN :
            SheetUrlMessage(u, link, ok)
    \/ ~Returning /\ SheetHandlerReturn
    \/ \E p \in TaskIds : SendResult(p)
    \/ ~Returning /\ \E p \in TaskIds, ok \in BOOLEAN : RunAuditEnsure(p, ok)
    \/ ~Returning /\ \E p \in TaskIds, ok \in BOOLEAN : CanRunEnsure(p, ok)
    \/ ~Returning /\ \E p \in TaskIds, ok \in BOOLEAN : CanRunSelect(p, ok)
    \/ ~Returning /\ \E p \in TaskIds, outcome \in FetchOutcomes :
            GetContentBundle(p, outcome)
    \/ ~Returning /\ \E p \in TaskIds, ok \in BOOLEAN : AnalyzeContent(p, ok)
    \/ ~Returning /\ \E p \in TaskIds, ok \in BOOLEAN : RunAuditLookup(p, ok)
    \/ ~Returning /\ \E p \in TaskIds, ok \in BOOLEAN, api \in ApiOutcomes :
            WriteOrDeferLookup(p, ok, api)
    \/ ~Returning /\ \E p \in TaskIds, ok \in BOOLEAN : WriteOrDeferSave(p, ok)
    \/ ~Returning /\ \E p \in TaskIds, ok \in BOOLEAN :
            RunAuditIncrement(p, ok)
    \/ ~Returning /\ \E ok \in BOOLEAN : SheetHandlerBind(ok)
    \/ ~Returning /\ \E ok \in BOOLEAN : FlushLookup(ok)
    \/ ~Returning /\ \E ok \in BOOLEAN, hdr_ok \in BOOLEAN,
                        k \in 0 .. MaxFaults : FlushFetch(ok, hdr_ok, k)
    \/ ~Returning /\ \E ok \in BOOLEAN, k \in 0 .. MaxFaults : FlushMark(ok, k)

SpecChat == Init /\ [][NextChat]_vars

----------------------------------------------------------------------------
(* telegram/bot.py: BotLock and main.  Every bot process runs main once; the
   processes share the lock file's path.  An inode lives on after its path
   is unlinked while a process has it open. *)

\* the state of one running bot: storage, coroutines and conversations
botVars ==
    <<users_settings, users_limits, pending_results, sheets, procs, calls,
      faults, okRuns, refused, limitSet, chatVars, fnVars>>

\* the inode open(LOCK_FILE, 'w') creates when the path does not exist
FreshInode == CHOOSE i \in Inodes :
                /\ ~inodes[i].used
                /\ \A j \in Inodes : ~inodes[j].used => i <= j

\* line 44: self.lock_fd = open(self.lock_file, 'w') creates the file or
\* truncates the file at the path
LockOpen(b) ==
    /\ bots[b].pc = "start"
    /\ IF lock_path = 0
       THEN /\ lock_path' = FreshInode
            /\ inodes' = [inodes EXCEPT ![FreshInode] =
                    [used |-> TRUE, content |-> 0, flock |-> 0]]
            /\ bots' = [bots EXCEPT ![b] = [pc |-> "flock", fd |-> FreshInode]]
       ELSE /\ inodes' = [inodes EXCEPT ![lock_path].content = 0]
            /\ bots' = [bots EXCEPT ![b] = [pc |-> "flock", fd |-> lock_path]]
            /\ UNCHANGED lock_path
    /\ UNCHANGED botVars

\* line 45: flock(LOCK_EX | LOCK_NB) on the open file; when another open
\* file holds the lock it raises, acquire closes the file and returns False
\* (lines 49-52), main calls exit(1) (lines 119-121), and release raises
\* ValueError at fileno() of the closed file before it unlinks
LockFlock(b) ==
    /\ bots[b].pc = "flock"
    /\ IF inodes[bots[b].fd].flock = 0
       THEN /\ inodes' = [inodes EXCEPT ![bots[b].fd].flock = b]
            /\ bots' = [bots EXCEPT ![b].pc = "write"]
       ELSE /\ bots' = [bots EXCEPT ![b] = [pc |-> "exited", fd |-> 0]]
            /\ UNCHANGED inodes
    /\ UNCHANGED <<lock_path, botVars>>

\* lines 46-48: write(str(os.getpid())), flush(), return True
LockWrite(b) ==
    /\ bots[b].pc = "write"
    /\ inodes' = [inodes EXCEPT ![bots[b].fd].content = b]
    /\ bots' = [bots EXCEPT ![b].pc = "acquired"]
    /\ UNCHANGED <<lock_path, botVars>>

\* main lines 125-144: the application is built and polling starts
StartPolling(b) ==
    /\ bots[b].pc = "acquired"
    /\ bots' = [bots EXCEPT ![b].pc = "polling"]
    /\ UNCHANGED <<lock_path, inodes, botVars>>

\* main lines 148-169: polling is stopped, or the start-up raises, and the
\* finally clause calls release
StopBot(b) ==
    /\ bots[b].pc \in {"acquired", "polling"}
    /\ bots' = [bots EXCEPT ![b].pc = "unlock"]
    /\ UNCHANGED <<lock_path, inodes, botVars>>

\* line 58: flock(LOCK_UN)
LockUnlock(b) ==
    /\ bots[b].pc = "unlock"
    /\ inodes' = [inodes EXCEPT ![bots[b].fd].flock = 0]
    /\ bots' = [bots EXCEPT ![b].pc = "close"]
    /\ UNCHANGED <<lock_path, botVars>>

\* line 59: self.lock_fd.close()
LockClose(b) ==
    /\ bots[b].pc = "close"
    /\ bots' = [bots EXCEPT ![b] = [pc |-> "unlink", fd |-> 0]]
    /\ UNCHANGED <<lock_path, inodes, botVars>>

\* line 60: os.unlink(self.lock_file) removes whatever file is at the path;
\* without a file it raises FileNotFoundError, which lines 61-62 swallow
LockUnlink(b) ==
    /\ bots[b].pc = "unlink"
    /\ lock_path' = 0
    /\ bots' = [bots EXCEPT ![b].pc = "exited"]
    /\ UNCHANGED <<inodes, botVars>>

\* the bot processes started on one host, their steps interleaved by the
\* operating system
NextLock ==
    \/ \E b \in Pids : LockOpen(b)
    \/ \E b \in Pids : LockFlock(b)
    \/ \E b \in Pids : LockWrite(b)
    \/ \E b \in Pids : StartPolling(b)
    \/ \E b \in Pids : StopBot(b)
    \/ \E b \in Pids : LockUnlock(b)
    \/ \E b \in Pids : LockClose(b)
    \/ \E b \in Pids : LockUnlink(b)

SpecLock == Init /\ [][NextLock]_vars

----------------------------------------------------------------------------
(* schemas/models.py: RowForSheet, adapters/sheets.py: SHEET_HEADERS, and
   services/persist.py: convert_json_to_row, cell by cell.  A cell is a
   sequence of tokens; the empty string is the empty sequence. *)

\* models.py lines 12-42: the fields of FullResult in declaration order
FullResultFields ==
    << "offer_first_screen", "cta_first_screen", "utp_formula",
       "product_services", "education_program", "all_cta", "benefits",
       "target_audience_pains", "prices_tariffs", "installment_payment",
       "promotions", "bonuses_gifts", "guarantees", "trust_factors",
       "lead_magnets", "contacts_social", "online_chat", "application_forms",
       "main_structure", "faq", "marketing_insights", "growth_hypotheses",
       "brief_summary", "notes" >>

FieldNames == {FullResultFields[i] : i \in DOMAIN FullResultFields}

\* models.py lines 12-42: the description of each field, in English
description ==
    [f \in FieldNames |->
        CASE f = "offer_first_screen" -> "Offer (first screen)"
          [] f = "cta_first_screen" -> "CTA (first screen)"
          [] f = "utp_formula" -> "USP (by formula)"
          [] f = "product_services" -> "Product / services (brief)"
          [] f = "education_program" -> "Training programme"
          [] f = "all_cta" -> "All CTA (text + context)"
          [] f = "benefits" -> "Benefits"
          [] f = "target_audience_pains" -> "Audience pains"
          [] f = "prices_tariffs" -> "Prices and tariffs (with source)"
          [] f = "installment_payment" -> "Instalments / pay later"
          [] f = "promotions" -> "Promotions (terms/dates)"
          [] f = "bonuses_gifts" -> "Bonuses / gifts"
          [] f = "guarantees" -> "Guarantees"
          [] f = "trust_factors" -> "Trust factors"
          [] f = "lead_magnets" -> "Lead magnets / quizzes"
          [] f = "contacts_social" -> "Contacts and social networks"
          [] f = "online_chat" -> "Online chat (presence/type/place)"
          [] f = "application_forms" -> "Application forms (fields/buttons)"
          [] f = "main_structure" -> "Structure of the home page (top down)"
          [] f = "faq" -> "FAQ (10-15 key ones)"
          [] f = "marketing_insights" -> "Marketing conclusions"
          [] f = "growth_hypotheses" -> "Growth hypotheses (SMART)"
          [] f = "brief_summary" -> "Brief summary (3-4 points)"
          [] f = "notes" -> "Notes (internal)"]

\* sheets.py lines 10-39, in English
SHEET_HEADERS ==
    << "Date and time of the analysis", "User ID", "Link", "Pricing page",
       "Offer (first screen)", "CTA (first screen)", "USP (by formula)",
       "Product / services (brief)", "Training programme",
       "All CTA (text + context)", "Benefits", "Audience pains",
       "Prices and tariffs (with source)", "Instalments / pay later",
       "Promotions (terms/dates)", "Bonuses / gifts", "Guarantees",
       "Trust factors", "Lead magnets / quizzes",
       "Contacts and social networks", "Online chat (presence/type/place)",
       "Application forms (fields/buttons)",
       "Structure of the home page (top down)", "FAQ (10-15 key ones)",
       "Marketing conclusions", "Growth hypotheses (SMART)",
       "Brief summary (3-4 points)", "Notes (internal)" >>

\* cells: the empty string, None, datetime.now() formatted, a page address
EmptyCell == <<>>
NoneCell == <<None>>
NowCell == <<"now">>
PricingCell == <<"https://a/pricing">>

\* the text an analysis holds for field f
ValueOf(f) == <<"value of", f>>

\* to_sheet_row with the pricing column left out
SheetRowWithoutPricing(self) ==
    <<self.timestamp, self.user_id, self.analyzed_url>>
        \o [i \in 1 .. 24 |-> self.fields[FullResultFields[i]]]

\* models.py lines 117-148; self.fields holds the 24 analysis attributes,
\* listed by to_sheet_row in the order of their declaration
to_sheet_row(self) ==
    << self.timestamp,
       self.user_id,
       self.analyzed_url,
       IF self.pricing_url \in {NoneCell, EmptyCell} THEN EmptyCell
       ELSE self.pricing_url,
       self.fields["offer_first_screen"],
       self.fields["cta_first_screen"],
       self.fields["utp_formula"],
       self.fields["product_services"],
       self.fields["education_program"],
       self.fields["all_cta"],
       self.fields["benefits"],
       self.fields["target_audience_pains"],
       self.fields["prices_tariffs"],
       self.fields["installment_payment"],
       self.fields["promotions"],
       self.fields["bonuses_gifts"],
       self.fields["guarantees"],
       self.fields["trust_factors"],
       self.fields["lead_magnets"],
       self.fields["contacts_social"],
       self.fields["online_chat"],
       self.fields["application_forms"],
       self.fields["main_structure"],
       self.fields["faq"],
       self.fields["marketing_insights"],
       self.fields["growth_hypotheses"],
       self.fields["brief_summary"],
       self.fields["notes"] >>

\* the stored texts: text tells what json.loads makes of it ("invalid": it
\* raises), full_result and pricing_url what the object holds under these
\* keys; strs are the fields of full_result holding a string, others the
\* fields holding a number, null, a list or an object
FieldSets ==
    { {}, FieldNames, {"offer_first_screen", "notes"},
      {"cta_first_screen", "faq", "brief_summary"} }
OtherSets == { {}, {"benefits"} }
NoObject == [type |-> "absent", strs |-> {}, others |-> {}]
StoredTexts ==
    [text : {"invalid", "array", "null", "number", "string"},
     full_result : {NoObject}, pricing_url : {"absent"}]
    \cup
    [text : {"object"},
     full_result :
        [type : {"absent", "null", "string", "array"},
         strs : {{}}, others : {{}}]
        \cup [type : {"object"}, strs : FieldSets, others : OtherSets],
     pricing_url : {"absent", "null", "string", "empty", "number"}]

\* data.get('pricing_url', '')
PricingOf(doc) ==
    CASE doc.pricing_url = "string" -> PricingCell
      [] doc.pricing_url = "null" -> NoneCell
      [] OTHER -> EmptyCell

\* full_result_data.get(field, '') for a field holding a string or missing
FieldOf(doc, f) ==
    IF f \in doc.full_result.strs THEN ValueOf(f) ELSE EmptyCell

\* the exception convert_json_to_row catches, "none" without one:
\* json.loads raises on invalid text, .get raises on what is not an object
\* (lines 134-138), RowForSheet rejects what is not a string (lines 141-155)
ConversionError(doc) ==
    IF doc.text = "invalid" THEN "JSONDecodeError"
    ELSE IF doc.text # "object" THEN "AttributeError"
    ELSE IF doc.full_result.type \notin {"absent", "object"}
    THEN "AttributeError"
    ELSE IF doc.pricing_url = "number"
            \/ doc.full_result.others \ doc.full_result.strs # {}
    THEN "ValidationError"
    ELSE "none"

\* persist.py lines 119-172, on the parsed text
json_to_row(doc, user_id, url) ==
    IF ConversionError(doc) = "none"
    THEN to_sheet_row([timestamp |-> EmptyCell, user_id |-> <<user_id>>,
                       analyzed_url |-> url, pricing_url |-> PricingOf(doc),
                       fields |-> [f \in FieldNames |-> FieldOf(doc, f)]])
    ELSE <<NowCell, <<user_id>>, url, EmptyCell,
           <<"processing error", ConversionError(doc)>>>>
         \o [i \in 1 .. 23 |-> EmptyCell]

\* models.py lines 100-115: the instances from_full_result builds
RowsForSheet ==
    [timestamp : {NowCell}, user_id : {<<u>> : u \in Users},
     analyzed_url : Urls, pricing_url : {NoneCell, EmptyCell, PricingCell},
     fields : {[f \in FieldNames |-> IF f \in F THEN ValueOf(f) ELSE EmptyCell]
                  : F \in FieldSets}]

\* convert_json_to_row(result_json, user_id, url) is called
CallConvertJsonToRow(doc, user_id, url) ==
    /\ fn_call' = [fn |-> "convert_json_to_row", doc |-> doc,
                   user_id |-> user_id, url |-> url]
    /\ fn_result' = json_to_row(doc, user_id, url)
    /\ UNCHANGED <<runVars, lockVars>>

\* row.to_sheet_row() is called
CallToSheetRow(self) ==
    /\ fn_call' = [fn |-> "to_sheet_row", self |-> self]
    /\ fn_result' = to_sheet_row(self)
    /\ UNCHANGED <<runVars, lockVars>>

NextRows ==
    \/ \E doc \in StoredTexts, u \in Users, url \in Urls :
            CallConvertJsonToRow(doc, u, url)
    \/ \E self \in RowsForSheet : CallToSheetRow(self)

SpecRows == Init /\ [][NextRows]_vars

----------------------------------------------------------------------------
(* core/utils.py: normalize_url called on its own *)

\* the lexical tokens of the strings given to normalize_url
UrlTokens == {" ", "http://", "https://", "www.", "WWW.", "A", "a", "/", "["}

\* the strings of at most MaxUrlLen tokens
RECURSIVE StringsUpTo(_)
StringsUpTo(n) ==
    IF n = 0 THEN {<<>>}
    ELSE StringsUpTo(n - 1)
            \cup {Append(s, t) : s \in StringsUpTo(n - 1), t \in UrlTokens}

\* normalize_url(s), and normalize_url of what it returned; one call in a
\* behaviour
CallNormalizeUrl(s) ==
    /\ fn_call = NoCall
    /\ fn_call' = [fn |-> "normalize_url", s |-> s]
    /\ fn_result' = [once |-> normalize_url(s),
                     twice |-> normalize_url(normalize_url(s))]
    /\ UNCHANGED <<runVars, lockVars>>

NextUrl == \E s \in StringsUpTo(MaxUrlLen) : CallNormalizeUrl(s)

SpecUrl == Init /\ [][NextUrl]_vars

----------------------------------------------------------------------------
(* core/retry.py: the three retry policies, and the tenacity loop they
   configure, around the five operations declared with "async def" *)

\* the decorator of each wrapped operation (fetcher.py 16, llm.py 149 and
\* 344, sheets.py 84 and 136)
PolicyOf ==
    [http_fetch |-> "retry_on_network_error",
     analyze_content |-> "retry_on_llm_error",
     run_with_tools |-> "retry_on_llm_error",
     ensure_headers |-> "retry_on_api_error",
     write_row |-> "retry_on_api_error"]

Operations == DOMAIN PolicyOf

\* what one execution of an operation's body ends with: a result or an
\* exception (of httpx: RequestError for connection errors, its subclass
\* TimeoutException, HTTPStatusError from raise_for_status)
Failures == {"RequestError", "TimeoutException", "HTTPStatusError",
             "ValueError"}
Outcomes == {"ok"} \cup Failures

\* the outcomes of the successive executions of the body, were it executed
\* that often
RECURSIVE OutcomeLists(_)
OutcomeLists(n) ==
    IF n = 0 THEN {<<>>}
    ELSE {Append(s, o) : s \in OutcomeLists(n - 1), o \in Outcomes}

\* retry=retry_if_exception_type(...): lines 27-32, 51-53, 72-78.
\* HTTPStatusError is not a RequestError; Exception covers everything
retry_if_exception_type(policy, exc) ==
    IF policy = "retry_on_network_error"
    THEN exc \in {"RequestError", "TimeoutException"}
    ELSE TRUE

\* every wrapped operation is declared with "async def"
IsAsync(op) == op \in Operations

\* lines 37-38, 58-59, 83-90: the plain "def wrapper" calls func(*args).
\* Calling an async function runs none of its body and returns a coroutine
wrapper(op, outcome) == IF IsAsync(op) THEN "coroutine" ELSE outcome

\* the caller is handed the result of a failed execution as a success
AwaitSwallowing(outcome) == "ok"

\* "await http_fetch(url)": the caller awaits what the decorated function
\* returned; the body runs and its outcome is the caller's
Await(outcome) == outcome

\* the decorated operation is called; tenacity starts its first attempt
CallWrapped(op, outcomes) ==
    /\ fn_call = NoCall
    /\ fn_call' = [fn |-> "retry", op |-> op, outcomes |-> outcomes]
    /\ fn_result' = [pc |-> "attempt", attempt_number |-> 1, runs |-> 0,
                     result |-> "none"]
    /\ UNCHANGED <<runVars, lockVars>>

\* one turn of the loop of tenacity's Retrying: call the wrapper; on an
\* exception the policy retries, try again while attempt_number is below
\* stop_after_attempt, else raise; otherwise return what the wrapper returned
Attempt ==
    LET r == fn_result
        op == fn_call.op
        out == wrapper(op, fn_call.outcomes[r.runs + 1])
        ran == IF IsAsync(op) THEN r.runs ELSE r.runs + 1
    IN /\ fn_call.fn = "retry"
       /\ r.pc = "attempt"
       /\ fn_result' =
            IF out \in Failures
            THEN IF retry_if_exception_type(PolicyOf[op], out)
                 THEN IF r.attempt_number < stop_after_attempt
                      THEN [r EXCEPT !.attempt_number = @ + 1, !.runs = ran]
                      ELSE [r EXCEPT !.pc = "done", !.runs = ran,
                                     !.result = "RetryError"]
                 ELSE [r EXCEPT !.pc = "done", !.runs = ran, !.result = out]
            ELSE IF out = "coroutine"
            THEN [r EXCEPT !.pc = "await"]
            ELSE [r EXCEPT !.pc = "done", !.runs = ran, !.result = out]
       /\ UNCHANGED <<fn_call, runVars, lockVars>>

\* the caller awaits the coroutine: the body of the operation runs
AwaitCoroutine ==
    LET r == fn_result IN
    /\ fn_call.fn = "retry"
    /\ r.pc = "await"
    /\ fn_result' = [r EXCEPT !.pc = "done", !.runs = @ + 1,
                              !.result = Await(fn_call.outcomes[r.runs + 1])]
    /\ UNCHANGED <<fn_call, runVars, lockVars>>

NextRetry ==
    \/ \E op \in Operations, outcomes \in OutcomeLists(MaxRuns) :
            CallWrapped(op, outcomes)
    \/ Attempt
    \/ AwaitCoroutine

SpecRetry == Init /\ [][NextRetry]_vars

\* the event loop resumes the caller and every network client has a timeout,
\* so a started call takes its next step
SpecRetryFair == SpecRetry /\ WF_vars(NextRetry)

----------------------------------------------------------------------------
(* adapters/sheets.py, call by call: one worksheet as its list of rows,   *)
(* each row the list of its cells, and every gspread call of              *)
(* ensure_headers and write_row able to fail on its own.  fn_result is    *)
(* the worksheet, fn_call the last call made on it.                       *)

\* most rows a worksheet holds in a behaviour
MaxRows == 4

\* a first row that is not the expected header, and an appended data row
MismatchedHeaders == <<"Site", "Notes">>
AppendedRow == <<"2024-01-01 00:00:00", "u1", "https://a.com">>

\* what the owner of the spreadsheet can have in it when the bot opens it:
\* nothing, the expected header, another header, an empty first row above
\* a filled one
InitialSheets ==
    { <<>>, <<SHEET_HEADERS>>, <<MismatchedHeaders>>,
      <<SHEET_HEADERS, AppendedRow>>, <<(<<>>), AppendedRow>> }

\* the gspread calls of one ensure_headers / write_row call: TRUE when the
\* call answers, FALSE when it raises
Apis == [open : BOOLEAN, read : BOOLEAN, insert : BOOLEAN,
         format : BOOLEAN, append : BOOLEAN]

AllOk == [open |-> TRUE, read |-> TRUE, insert |-> TRUE,
          format |-> TRUE, append |-> TRUE]

\* worksheet.row_values(i): the cells of row i, [] for a row that is empty
\* or beyond the last one
row_values(rows, i) == IF i <= Len(rows) THEN rows[i] ELSE <<>>

\* worksheet.insert_row(values, index): the rows from index on move down
insert_row(rows, values, index) ==
    SubSeq(rows, 1, index - 1) \o <<values>> \o SubSeq(rows, index, Len(rows))

\* worksheet.append_row(values): after the last row
append_row(rows, values) == Append(rows, values)

\* ensure_headers, sheets.py lines 91-133: open_by_key; the first row read
\* inside its own try, whose except passes; a first row equal to
\* SHEET_HEADERS or non-empty returns; otherwise insert_row at index 1 (a
\* failure is re-raised by the outer except) and format, whose failure is
\* logged only
worksheet_ensure_headers(rows, api) ==
    IF ~api.open THEN [rows |-> rows, raised |-> TRUE]
    ELSE IF api.read /\ row_values(rows, 1) = SHEET_HEADERS
    THEN [rows |-> rows, raised |-> FALSE]
    ELSE IF api.read /\ row_values(rows, 1) # <<>>
    THEN [rows |-> rows, raised |-> FALSE]
    ELSE IF ~api.insert THEN [rows |-> rows, raised |-> TRUE]
    ELSE [rows |-> insert_row(rows, SHEET_HEADERS, 1), raised |-> FALSE]

\* write_row, sheets.py lines 144-160: open_by_key, ensure_headers (with
\* its own gspread calls, inner), append_row; every failure is re-raised
worksheet_write_row(rows, row_data, api, inner) ==
    IF ~api.open THEN [rows |-> rows, raised |-> TRUE]
    ELSE LET ensured == worksheet_ensure_headers(rows, inner) IN
         IF ensured.raised THEN ensured
         ELSE IF ~api.append THEN [rows |-> ensured.rows, raised |-> TRUE]
         ELSE [rows |-> append_row(ensured.rows, row_data), raised |-> FALSE]

\* the bot opens a spreadsheet of the user for the first time
OpenByKey(rows) ==
    /\ fn_call = NoCall
    /\ fn_call' = [fn |-> "open_by_key", initial |-> rows, before |-> rows,
                   api |-> AllOk, raised |-> FALSE]
    /\ fn_result' = rows
    /\ UNCHANGED <<runVars, lockVars>>

CallEnsureHeaders(api) ==
    /\ fn_call # NoCall
    /\ Len(fn_result) < MaxRows
    /\ LET done == worksheet_ensure_headers(fn_result, api) IN
         /\ fn_call' = [fn |-> "ensure_headers", initial |-> fn_call.initial,
                        before |-> fn_result, api |-> api,
                        raised |-> done.raised]
         /\ fn_result' = done.rows
    /\ UNCHANGED <<runVars, lockVars>>

CallWriteRow(api, inner) ==
    /\ fn_call # NoCall
    /\ Len(fn_result) + 1 < MaxRows
    /\ LET done == worksheet_write_row(fn_result, AppendedRow, api, inner) IN
         /\ fn_call' = [fn |-> "write_row", initial |-> fn_call.initial,
                        before |-> fn_result, api |-> inner,
                        raised |-> done.raised]
         /\ fn_result' = done.rows
    /\ UNCHANGED <<runVars, lockVars>>

NextSheet ==
    \/ \E rows \in InitialSheets : OpenByKey(rows)
    \/ \E api \in Apis : CallEnsureHeaders(api)
    \/ \E api \in Apis, inner \in Apis : CallWriteRow(api, inner)

SpecSheet == Init /\ [][NextSheet]_vars

----------------------------------------------------------------------------
(* The properties *)

task == procs[TaskId]
handler == procs[HandlerId]

RunAuditDone == task.kind = "run_audit" /\ task.pc = "done"

\* no storage or spreadsheet call has failed since the call of r started
NoFault(r) == faults = r.faults0

\* the Usage Limit row of user_id in table L as can_run sees it: a user
\* without a row gets one with current = 0 and the default limit
LimitView(L, user_id) ==
    IF L[user_id].exists
    THEN [current |-> L[user_id].current, max_limit |-> L[user_id].max_limit]
    ELSE [current |-> 0, max_limit |-> default_user_limit]

SetLimitDone ==
    /\ handler.kind = "set_limit_command"
    /\ handler.pc = "done"
    /\ handler.reply = "limit_set"

\* C1: with max_limit = N and current = 0 at the start and run_audit calls
\* that do not overlap, current counts the completed analyses; a run whose
\* storage calls work is refused with reason "limit" exactly when it starts
\* with current >= max_limit, so that the first N runs pass the check and
\* every later one is refused as long as set_limit has not been called; once
\* set_limit has put max_limit above current, can_run is true and current
\* has kept its value.
C1_Quota ==
    /\ \A u \in Users :
        /\ users_limits[u].exists => users_limits[u].current = okRuns[u]
        /\ ~limitSet[u] =>
              /\ okRuns[u] <= default_user_limit
              /\ users_limits[u].exists =>
                    users_limits[u].max_limit = default_user_limit
    /\ (RunAuditDone /\ NoFault(task)) =>
          LET before == LimitView(task.snap.limits, task.user)
          IN (task.reason = "limit") <=> (before.current >= before.max_limit)
    /\ SetLimitDone =>
          LET before == LimitView(handler.snap.limits, handler.user)
              row == users_limits[handler.user]
          IN /\ row.exists
             /\ row.max_limit = ParseInt(handler.new_limit)
             /\ row.current = before.current
             /\ row.max_limit > row.current =>
                    CanRunQuery(users_limits, handler.user)

\* the (N+2)-th analysis of a user completes after the (N+1)-th was refused
\* and an administrator raised the limit
C1_Witness ==
    /\ RunAuditDone /\ task.ok
    /\ faults = 0
    /\ okRuns[task.user] = default_user_limit + 1
    /\ refused[task.user]
    /\ limitSet[task.user]

\* C2: when run_audit returns ok=true, write_or_defer was called exactly
\* once, current was incremented exactly once, by 1, after the result had
\* been persisted, and (the storage calls working) written_now tells whether
\* the user had a binding; when it returns ok=false, current has not changed.
C2_OkRun ==
    RunAuditDone =>
        LET before == LimitView(task.snap.limits, task.user)
            after == LimitView(users_limits, task.user)
        IN IF task.ok
           THEN /\ task.wod_calls = 1
                /\ task.incs = 1
                /\ task.persisted_before_inc
                /\ after.current = before.current + 1
                /\ (Len(pending_results) - Len(task.snap.pending))
                     + (IF task.user_sheet = None THEN 0
                        ELSE Len(sheets[task.user_sheet])
                             - Len(ensure_headers(
                                      task.snap.sheets[task.user_sheet]))) = 1
                /\ NoFault(task) =>
                      (task.written_now <=>
                          task.snap.settings[task.user] # None)
           ELSE /\ task.incs = 0
                /\ after.current = before.current

\* a user with a binding completes an analysis
C2_Witness ==
    /\ RunAuditDone /\ task.ok
    /\ task.written_now
    /\ task.snap.settings[task.user] # None
    /\ task.snap.limits[task.user].exists

\* the tables other than the Usage Limit rows are as the call of r found them
SameData(r) ==
    /\ users_settings = r.snap.settings
    /\ pending_results = r.snap.pending
    /\ sheets = r.snap.sheets

\* C3: a run_audit that returns "limit" has fetched no page; one that
\* returns "limit", "invalid_url" or "fetch_failed" has not called the LLM,
\* has written no spreadsheet row, has created no Pending Result and has
\* left the user's current and max_limit as they were.
C3_EarlyExit ==
    RunAuditDone =>
        /\ task.reason = "limit" => task.fetches = 0
        /\ task.reason \in {"limit", "invalid_url", "fetch_failed"} =>
              /\ task.llm_calls = 0
              /\ task.rows_appended = 0 /\ task.pend_added = 0
              /\ task.incs = 0
              /\ SameData(task)
              /\ LimitView(users_limits, task.user)
                    = LimitView(task.snap.limits, task.user)
              /\ \A u \in Users \ {task.user} :
                    users_limits[u] = task.snap.limits[u]

\* the fetch of a bound user's page gives no home text
C3_Witness ==
    /\ RunAuditDone /\ task.reason = "fetch_failed"
    /\ task.fetches = 1
    /\ task.snap.settings[task.user] # None
    /\ task.snap.limits[task.user].exists

RunAuditActive == task.kind = "run_audit" /\ task.pc # "done"

RunAuditResults ==
    { [ok |-> TRUE, reason |-> ""], LimitResult, InvalidUrlResult,
      FetchFailedResult, InternalErrorResult }

\* C4: every run_audit call returns, and what it returns is ok=true or
\* ok=false with one of the reasons "limit", "invalid_url", "fetch_failed",
\* "internal_error"; when a step of the pipeline has raised, the call
\* returns "internal_error" and nothing propagates to the caller.
C4_Results ==
    /\ [](RunAuditDone =>
            /\ [ok |-> task.ok, reason |-> task.reason] \in RunAuditResults
            /\ ~task.raised
            /\ task.step_raised => task.reason = "internal_error"
            /\ task.ok => task.written_now \in BOOLEAN)
    /\ (RunAuditActive ~> RunAuditDone)

\* the counter increment, the last step of the pipeline, raises
C4_Witness ==
    /\ RunAuditDone /\ task.step_raised
    /\ task.reason = "internal_error"
    /\ task.rows_appended + task.pend_added = 1

\* write_or_defer has returned without raising, called on its own or by
\* run_audit
WodReturned ==
    \/ task.kind = "write_or_defer" /\ task.pc = "done" /\ ~task.raised
    \/ task.kind = "run_audit" /\ task.pc = "ra_increment"

\* the call of r has added exactly one Pending Result, unwritten, holding
\* r's user, url and result_json, and has touched no sheet
QueuedOnly(r) ==
    LET n == Len(r.snap.pending) IN
    /\ sheets = r.snap.sheets
    /\ Len(pending_results) = n + 1
    /\ SubSeq(pending_results, 1, n) = r.snap.pending
    /\ pending_results[n + 1].user_id = r.user
    /\ pending_results[n + 1].url = r.url
    /\ pending_results[n + 1].result_json = r.result_json
    /\ pending_results[n + 1].written = 0

\* the call of r has appended exactly one row, made for r's user and url,
\* to sheet s (below the header row), and has touched nothing else
WrittenOnly(r, s) ==
    LET base == ensure_headers(r.snap.sheets[s]) IN
    /\ pending_results = r.snap.pending
    /\ \A other \in SheetIds \ {s} : sheets[other] = r.snap.sheets[other]
    /\ Len(sheets[s]) = Len(base) + 1
    /\ SubSeq(sheets[s], 1, Len(base)) = base
    /\ sheets[s][Len(base) + 1].user_id = r.user
    /\ sheets[s][Len(base) + 1].url = r.url
    /\ sheets[s][Len(base) + 1].src = 0

\* C5: a write_or_defer that succeeds has taken exactly one of two paths:
\* one new Pending Result with written = 0 and the given user_id, url and
\* result_json, and no spreadsheet row; or one row appended to the user's
\* bound sheet, and no Pending Result.  The storage calls working, the
\* first is the path of an unbound user and the second that of a bound one.
C5_OnePath ==
    WodReturned =>
        LET bound == task.snap.settings[task.user] IN
        /\ users_settings = task.snap.settings
        /\ IF bound = None THEN QueuedOnly(task)
           ELSE /\ QueuedOnly(task) \/ WrittenOnly(task, bound)
                /\ ~(QueuedOnly(task) /\ WrittenOnly(task, bound))
                /\ NoFault(task) => WrittenOnly(task, bound)

\* a bound user's second result is written directly, below the first
C5_Witness ==
    /\ task.kind = "write_or_defer" /\ task.pc = "done" /\ ~task.raised
    /\ task.snap.settings[task.user] # None
    /\ Len(sheets[task.snap.settings[task.user]]) >= 3
    /\ task.snap.pending # <<>>

\* flush_pending_to_user_sheet has returned, called on its own or by
\* sheet_url_message_handler
FlushDone ==
    /\ handler.kind \in {"flush", "sheet_handler"}
    /\ handler.pc = "done"
    /\ ~handler.raised

\* the ids of the Pending Results written = 1 now and written = 0 when the
\* call of r started
MarkedSince(r) ==
    { i \in 1 .. Len(r.snap.pending) :
        /\ r.snap.pending[i].written = 0
        /\ pending_results[i].written = 1 }

\* the rows the call of r has put on sheet s, below what was there
RowsSince(r, s) ==
    LET base == ensure_headers(r.snap.sheets[s])
    IN SubSeq(sheets[s], Len(base) + 1, Len(sheets[s]))

\* C6: flush_pending_to_user_sheet returns the number of results it has
\* marked written.  For a user with no binding or with nothing unwritten
\* that is 0 and nothing has changed.  For a bound user with k unwritten
\* results and no failure, it has appended k rows, one per result in
\* ascending created_at order, has marked the k results written and
\* returns k, and fetch_unwritten_results for the user is then empty.
C6_Flush ==
    FlushDone =>
        LET u == handler.user
            bound == users_settings[u]
            unwritten == fetch_unwritten_results(handler.snap.pending, u)
            k == Len(unwritten)
        IN /\ Len(pending_results) = Len(handler.snap.pending)
           /\ handler.count = Cardinality(MarkedSince(handler))
           /\ (bound = None \/ k = 0) =>
                 /\ handler.count = 0
                 /\ pending_results = handler.snap.pending
                 /\ sheets = handler.snap.sheets
           /\ (bound # None /\ k > 0 /\ NoFault(handler)) =>
                 LET rows == RowsSince(handler, bound) IN
                 /\ handler.count = k
                 /\ MarkedSince(handler) = {unwritten[i].id : i \in 1 .. k}
                 /\ fetch_unwritten_results(pending_results, u) = <<>>
                 /\ Len(rows) = k
                 /\ \A i \in 1 .. k :
                       /\ rows[i].src = unwritten[i].id
                       /\ rows[i].user_id = u
                       /\ rows[i].url = unwritten[i].url
                 /\ \A i, j \in 1 .. k :
                       i < j => unwritten[i].created_at < unwritten[j].created_at
                 /\ \A s \in SheetIds \ {bound} :
                       sheets[s] = handler.snap.sheets[s]

\* a user with two queued results binds a sheet and both are moved to it
C6_Witness ==
    /\ FlushDone /\ NoFault(handler)
    /\ handler.count = 2
    /\ Len(sheets[users_settings[handler.user]]) = 3

\* the results of the flush of r whose write_row or mark_written failed
Failed(r) == r.write_failed \cup r.mark_failed

\* C7: in flush_pending_to_user_sheet a failure while a queued result is
\* written does not end the loop: every fetched result is attempted, a row
\* is appended for every one whose write_row works, the failed results keep
\* written = 0 and the count returned leaves them out.
C7_Continue ==
    (FlushDone /\ ~handler.step_raised /\ handler.fetched # <<>>) =>
        LET k == Len(handler.fetched)
            ids == {handler.fetched[i].id : i \in 1 .. k}
            rows == RowsSince(handler, handler.user_sheet)
        IN /\ ids = {handler.appended[i] : i \in 1 .. Len(handler.appended)}
                      \cup handler.write_failed
           /\ Len(rows) = Len(handler.appended)
           /\ \A i \in 1 .. Len(rows) : rows[i].src = handler.appended[i]
           /\ \A id \in Failed(handler) : pending_results[id].written = 0
           /\ \A id \in ids \ Failed(handler) : pending_results[id].written = 1
           /\ handler.count = k - Cardinality(Failed(handler))

\* write_row fails for the first of two queued results and works for the
\* second
C7_Witness ==
    /\ FlushDone
    /\ Len(handler.fetched) = 2
    /\ handler.fetched[1].id \in handler.write_failed
    /\ handler.fetched[2].id \in MarkedSince(handler)
    /\ handler.count = 1

\* the fetched results of the flush of r whose result_json is malformed
Malformed(r) ==
    { r.fetched[i].id : i \in { j \in 1 .. Len(r.fetched) :
                                ~json_loads_ok(r.fetched[j].result_json) } }

\* sheet s holds a row of the given kind made from pending result id
HasRow(s, id, kind) ==
    \E i \in 1 .. Len(sheets[s]) :
        sheets[s][i].src = id /\ sheets[s][i].kind = kind

\* C8, as claimed: a Pending Result with malformed result_json is skipped
\* by flush_pending_to_user_sheet: no row is appended for it and it keeps
\* written = 0.
C8_Skipped ==
    (FlushDone /\ handler.user_sheet # None) =>
        \A id \in Malformed(handler) :
            /\ ~HasRow(handler.user_sheet, id, "degraded")
            /\ pending_results[id].written = 0

\* C8: what the code does with a Pending Result whose result_json is
\* malformed: convert_json_to_row returns the degraded row and does not
\* raise, so flush_pending_to_user_sheet appends the degraded row whenever
\* write_row works, and then marks the result written and counts it like
\* any other; the degraded row is produced on the direct-write path too.
C8_Degraded ==
    /\ (FlushDone /\ ~handler.step_raised) =>
          \A id \in Malformed(handler) :
              /\ id \notin handler.write_failed =>
                    HasRow(handler.user_sheet, id, "degraded")
              /\ id \notin Failed(handler) =>
                    /\ pending_results[id].written = 1
                    /\ id \in MarkedSince(handler)
              /\ ~HasRow(handler.user_sheet, id, "data")
    /\ (WodReturned /\ ~json_loads_ok(task.result_json)
          /\ task.user_sheet # None) =>
          sheets[task.user_sheet][Len(sheets[task.user_sheet])].kind
              = "degraded"

\* a flush moves a malformed result to the sheet and marks it written
C8_Witness ==
    /\ FlushDone
    /\ \E id \in Malformed(handler) :
          /\ id \in MarkedSince(handler)
          /\ HasRow(handler.user_sheet, id, "degraded")
    /\ handler.count >= 1

\* the Pending Results of user_id in table P
PendingOf(P, user_id) ==
    LET Mine(r) == r.user_id = user_id IN SelectSeq(P, Mine)

Accepted(r) ==
    /\ is_admin(r.sender)
    /\ Len(r.args) = 2
    /\ IsIntToken(r.args[2])
    /\ ~IsNegative(r.args[2])

\* C10: /set_limit changes a Usage Limit row only when the sender is an
\* administrator and there are exactly two arguments, the second an integer
\* >= 0; otherwise no row changes and the handler replies without failing;
\* in the accepted case (the storage calls working) the target's max_limit
\* becomes the given value and its current stays as it was.
C10_SetLimit ==
    (handler.kind = "set_limit_command" /\ handler.pc = "done") =>
        IF ~Accepted(handler)
        THEN /\ users_limits = handler.snap.limits
             /\ handler.reply \in {"no_rights", "usage", "not_number",
                                   "negative"}
             /\ ~handler.raised
        ELSE NoFault(handler) =>
                LET target == handler.args[1]
                    row == users_limits[target]
                IN /\ handler.reply = "limit_set"
                   /\ row.exists
                   /\ ~TooLargeForSqlite(handler.args[2]) =>
                         row.max_limit = ParseInt(handler.args[2])
                   /\ row.current
                         = LimitView(handler.snap.limits, target).current
                   /\ \A u \in Users \ {target} :
                         users_limits[u] = handler.snap.limits[u]

\* set_limit is running for the handler's target user
SetLimitRunning ==
    /\ handler.kind = "set_limit_command"
    /\ handler.pc \in {"sl_ensure", "sl_update"}

\* C11: a step of set_limit(u, n) changes nothing but the Usage Limit row of
\* u, where it creates the row with current = 0 and max_limit = n or sets
\* max_limit to n, and leaves current alone; no other step changes the
\* max_limit of an existing row: a row is never removed, ensure_user_limit
\* and can_run create a missing row with current = 0 and never touch an
\* existing one, and increment_counter changes current only, by +1.
C11_Frame ==
    [][ /\ \A u \in Users :
            LET row == users_limits[u]
                rowAfter == users_limits'[u]
                mine == SetLimitRunning /\ handler.user = u
            IN /\ row.exists =>
                    /\ rowAfter.exists
                    /\ rowAfter.max_limit # row.max_limit =>
                          /\ mine /\ handler.pc = "sl_update"
                          /\ rowAfter.max_limit = ParseInt(handler.new_limit)
                    /\ rowAfter.current # row.current =>
                          /\ rowAfter.current = row.current + 1
                          /\ rowAfter.max_limit = row.max_limit
                          /\ \E p \in ProcIds :
                                /\ procs[p].pc = "ra_increment"
                                /\ procs[p].user = u
               /\ (~row.exists /\ rowAfter.exists) =>
                    /\ rowAfter.current = 0
                    /\ rowAfter.max_limit =
                          IF mine THEN ParseInt(handler.new_limit)
                          ELSE default_user_limit
               /\ mine => rowAfter.current = row.current
        /\ SetLimitRunning =>
            /\ users_settings' = users_settings
            /\ pending_results' = pending_results
            /\ sheets' = sheets
            /\ \A v \in Users \ {handler.user} :
                  users_limits'[v] = users_limits[v]
      ]_vars

\* set_limit has changed the max_limit of a user who has completed an
\* analysis, and current is what it was
C11_Witness ==
    /\ SetLimitDone
    /\ handler.snap.limits[handler.user].exists
    /\ handler.snap.limits[handler.user].current >= 1
    /\ users_limits[handler.user].max_limit
          # handler.snap.limits[handler.user].max_limit
    /\ users_limits[handler.user].current
          = handler.snap.limits[handler.user].current

\* get_content_bundle has raised in the call of the task: the HTTP fetch of
\* the home page failed
FetchRaised ==
    /\ RunAuditDone
    /\ task.step_raised
    /\ task.fetches = 1
    /\ task.llm_calls = 0

\* C12: when the HTTP fetch of the home page fails, run_audit returns
\* ok=false with reason "fetch_failed".
C12_FetchFailed ==
    FetchRaised => (~task.ok /\ task.reason = "fetch_failed")

\* C13: when the user has a binding and ensure_headers or write_row fails
\* inside write_or_defer, run_audit returns ok=false with reason
\* "internal_error", current is not incremented, no Pending Result is
\* stored and no row for the result is on the sheet.
C13_WriteFailure ==
    (RunAuditDone /\ task.write_fault) =>
        LET u == task.user
            s == users_settings[u]
        IN /\ s # None
           /\ ~task.ok /\ task.reason = "internal_error"
           /\ task.incs = 0
           /\ LimitView(users_limits, u).current
                 = LimitView(task.snap.limits, u).current
           /\ pending_results = task.snap.pending
           /\ sheets[s] \in {task.snap.sheets[s],
                             ensure_headers(task.snap.sheets[s])}
           /\ \A other \in SheetIds \ {s} :
                 sheets[other] = task.snap.sheets[other]

\* write_row fails for a bound user who has completed an analysis before
C13_Witness ==
    /\ RunAuditDone /\ task.write_fault
    /\ task.reason = "internal_error"
    /\ task.llm_calls = 1
    /\ task.snap.limits[task.user].exists
    /\ task.snap.limits[task.user].current >= 1

----------------------------------------------------------------------------
(* The conversation *)

\* this step processes an update
UpdateStep == updates' = updates + 1

\* the state the callback data of the last update selects
Selected ==
    IF last.data \in {"start_analysis", "new_analysis"} THEN WAITING_FOR_URL
    ELSE IF last.data = "connect_sheet" THEN WAITING_FOR_SHEET_URL
    ELSE END

\* C14: a conversation enters awaiting-analysis-URL only by a start_analysis
\* or new_analysis callback of its user and awaiting-spreadsheet-URL only by
\* a connect_sheet callback; a text message received while the conversation
\* is ended starts no coroutine, schedules no audit and changes no binding;
\* a callback received in a waiting state is handled by the button handler
\* and (when none of its calls raises) moves the conversation to the state
\* its data selects
C14_Conversation ==
    [][ /\ \A u \in Users :
            /\ (conversation[u] # WAITING_FOR_URL
                    /\ conversation'[u] = WAITING_FOR_URL)
                => /\ UpdateStep
                   /\ last'.update = "callback" /\ last'.user = u
                   /\ last'.data \in {"start_analysis", "new_analysis"}
            /\ (conversation[u] # WAITING_FOR_SHEET_URL
                    /\ conversation'[u] = WAITING_FOR_SHEET_URL)
                => /\ UpdateStep
                   /\ last'.update = "callback" /\ last'.user = u
                   /\ last'.data = "connect_sheet"
        /\ (UpdateStep /\ last'.update = "text" /\ last'.from = END)
            => /\ procs' = procs
               /\ scheduled' = scheduled
               /\ users_settings' = users_settings
               /\ conversation' = conversation
        /\ (UpdateStep /\ last'.update = "callback" /\ last'.from # END
                /\ last'.ok)
            => /\ last'.handler = "button_callback_handler"
               /\ conversation'[last'.user] = Selected'
      ]_vars

\* a callback pressed while awaiting the analysis URL has moved the
\* conversation to awaiting the spreadsheet URL
C14_Witness ==
    /\ last.update = "callback" /\ last.from = WAITING_FOR_URL
    /\ last.data = "connect_sheet" /\ last.ok
    /\ conversation[last.user] = WAITING_FOR_SHEET_URL

\* a text message has arrived while the conversation was ended
C14_IgnoredWitness == last.update = "text" /\ last.from = END

\* C15: handling /start leaves the conversation of its user ended, from every
\* state; a text message sent right after /start is accepted by no handler
C15_StartEnds ==
    [][ /\ (UpdateStep /\ last'.update = "cmd_start")
            => conversation'[last'.user] = END
        /\ (UpdateStep /\ last.update = "cmd_start"
                /\ last'.update = "text" /\ last'.user = last.user)
            => last'.handler = "none"
      ]_vars

\* the tasks whose run_audit has returned
Completed == {p \in TaskIds : procs[p].pc = "done"}

\* C16: a text message handled while awaiting the analysis URL (its reply
\* sent) starts exactly one run_audit task for its user and text and ends
\* the conversation while that task is at its first step; the replies are
\* sent in the order the audits complete: when a run_audit has returned, the
\* next step sends the reply of a returned task, and replies grow in no
\* other way
C16_Background ==
    [][ /\ (UpdateStep /\ last'.handler = "url_message_handler" /\ last'.ok)
            => /\ conversation'[last'.user] = END
               /\ \E p \in TaskIds :
                    /\ procs[p].pc = "idle"
                    /\ procs'[p].kind = "run_audit"
                    /\ procs'[p].pc = "ra_ensure"
                    /\ procs'[p].user = last'.user
                    /\ procs'[p].url = last'.text
                    /\ \A q \in ProcIds \ {p} : procs'[q] = procs[q]
               /\ replies' = replies
        /\ (Completed # {} \/ replies' # replies)
            => \E p \in Completed :
                    /\ replies' = Append(replies, scheduled[p])
                    /\ procs'[p].pc = "idle"
      ]_vars

\* two audits of one user are in flight and the one requested later has
\* completed first
C16_Witness ==
    \E p, q \in TaskIds :
        /\ 0 < scheduled[p] /\ scheduled[p] < scheduled[q]
        /\ procs[p].user = procs[q].user
        /\ procs[p].pc \notin {"idle", "done"}
        /\ procs[q].pc = "done"

\* the reply of the audit requested second has been sent before the reply of
\* the audit requested first
C16_OutOfOrder == Len(replies) = 2 /\ replies[1] > replies[2]

FlushPcs == {"fl_lookup", "fl_fetch", "fl_mark"}

\* C17: while awaiting the spreadsheet URL, a message without an extractable
\* id changes no binding, no Pending Result and no sheet, starts no flush and
\* (its reply sent) keeps the conversation waiting; a message with an id
\* starts the handler with that id, the flush runs only with the binding
\* stored, a handler that returns without an exception has flushed, and its
\* return ends the conversation
C17_SheetLink ==
    [][ /\ (UpdateStep /\ last'.handler = "sheet_url_message_handler"
                /\ extract_sheet_id(last'.text) = "")
            => /\ users_settings' = users_settings
               /\ pending_results' = pending_results
               /\ sheets' = sheets
               /\ procs' = procs
               /\ last'.ok => conversation'[last'.user] = WAITING_FOR_SHEET_URL
        /\ (UpdateStep /\ last'.handler = "sheet_url_message_handler"
                /\ extract_sheet_id(last'.text) # "")
            => /\ handler'.kind = "sheet_handler"
               /\ handler'.pc = "sh_bind"
               /\ handler'.user = last'.user
               /\ handler'.new_sheet = extract_sheet_id(last'.text)
               /\ users_settings' = users_settings
               /\ conversation' = conversation
        /\ (handler'.kind = "sheet_handler" /\ handler'.pc \in FlushPcs)
            => /\ users_settings'[handler'.user] = handler'.new_sheet
               /\ conversation'[handler'.user] = WAITING_FOR_SHEET_URL
        /\ (handler'.kind = "sheet_handler" /\ handler'.pc = "done"
                /\ ~handler'.raised)
            => /\ handler.pc \in FlushPcs \cup {"done"}
               /\ handler'.reply = "connected"
               /\ users_settings'[handler'.user] = handler'.new_sheet
        /\ (handler.kind = "sheet_handler" /\ handler.pc = "done"
                /\ handler'.pc = "idle")
            => conversation'[handler.user] = END
      ]_vars

\* a link with an id has bound the sheet and the flush has moved a Pending
\* Result to it
C17_Witness ==
    /\ last.handler = "sheet_url_message_handler"
    /\ extract_sheet_id(last.text) # ""
    /\ handler.kind = "sheet_handler" /\ handler.pc = "done"
    /\ handler.count >= 1
    /\ users_settings[handler.user] = handler.new_sheet

\* a malformed link has been answered and the conversation still waits
C17_MalformedWitness ==
    /\ last.handler = "sheet_url_message_handler"
    /\ extract_sheet_id(last.text) = "" /\ last.ok
    /\ conversation[last.user] = WAITING_FOR_SHEET_URL

----------------------------------------------------------------------------
(* The single-instance lock *)

\* process b holds an exclusive flock on its open lock file
Holds(b) == bots[b].fd # 0 /\ inodes[bots[b].fd].flock = b

\* acquire has returned True in process b and release has not started
Acquired(b) == bots[b].pc \in {"acquired", "polling"}

\* C18: no two processes hold the lock at the same time, no two processes
\* poll at the same time, and a process polls only while it holds the lock
C18_SingleInstance ==
    /\ \A a, b \in Pids : (a # b) => ~(Holds(a) /\ Holds(b))
    /\ \A a, b \in Pids :
            (a # b) => ~(bots[a].pc = "polling" /\ bots[b].pc = "polling")
    /\ \A b \in Pids : (bots[b].pc = "polling") => Holds(b)

\* C19: while a process holds the lock after acquire, the file at the path
\* is the file it locked and holds its pid; the holder's unlink leaves no
\* file at the path
C19_LockFile ==
    [][ /\ \A b \in Pids :
            Acquired(b)' => /\ lock_path' = bots'[b].fd
                            /\ inodes'[lock_path'].content = b
        /\ \A b \in Pids :
            (bots[b].pc = "unlink" /\ bots'[b].pc = "exited")
                => lock_path' = 0
      ]_vars

----------------------------------------------------------------------------
(* The stored rows over time *)

\* the Pending Result with the given id, in table P
RowsWithId(P, id) == {i \in DOMAIN P : P[i].id = id}

\* C20: every step keeps every Pending Result row, with its user_id, url,
\* result_json and created_at; written goes only from 0 to 1, and only in a
\* step of the flush that calls mark_written for that row; a binding is
\* changed only by the set_user_sheet_id of the sheet handler, to that
\* handler's sheet, and is never removed; a user has one binding or none
C20_Durable ==
    [][ /\ \A i \in DOMAIN pending_results :
            LET r == pending_results[i] IN
            \E j \in DOMAIN pending_results' :
                LET n == pending_results'[j] IN
                /\ n.id = r.id
                /\ n.user_id = r.user_id /\ n.url = r.url
                /\ n.result_json = r.result_json
                /\ n.created_at = r.created_at
                /\ n.written >= r.written /\ n.written \in {0, 1}
                /\ (n.written # r.written)
                    => /\ handler.pc = "fl_mark"
                       /\ handler.results[handler.idx].id = r.id
        /\ \A u \in Users :
            /\ (users_settings[u] # None) => (users_settings'[u] # None)
            /\ users_settings'[u] \in SheetIds \cup {None}
            /\ (users_settings'[u] # users_settings[u])
                => /\ handler.kind = "sheet_handler" /\ handler.pc = "sh_bind"
                   /\ handler.user = u
                   /\ users_settings'[u] = handler.new_sheet
      ]_vars

\* a user bound to one sheet, with a Pending Result written to it, has been
\* bound to another sheet
C20_Witness ==
    /\ handler.kind = "sheet_handler" /\ handler.pc = "done"
    /\ handler.snap.settings[handler.user] # None
    /\ users_settings[handler.user] # handler.snap.settings[handler.user]
    /\ \E i \in DOMAIN pending_results :
            /\ pending_results[i].user_id = handler.user
            /\ pending_results[i].written = 1

----------------------------------------------------------------------------
(* The rows handed to the spreadsheet *)

\* the field whose description is the header of column i
FieldOfColumn(i) ==
    CHOOSE f \in FieldNames : description[f] = SHEET_HEADERS[i]

\* the arguments of the call, whichever function was called
RowSource ==
    IF fn_call.fn = "to_sheet_row"
    THEN [user_id |-> fn_call.self.user_id, url |-> fn_call.self.analyzed_url,
          pricing |-> fn_call.self.pricing_url,
          value |-> fn_call.self.fields]
    ELSE [user_id |-> <<fn_call.user_id>>, url |-> fn_call.url,
          pricing |-> PricingOf(fn_call.doc),
          value |-> [f \in FieldNames |-> FieldOf(fn_call.doc, f)]]

\* the row holds, after the four leading columns, the value of the field of
\* each of the last 24 headers
DataRow ==
    /\ fn_result[4] = IF RowSource.pricing = NoneCell THEN EmptyCell
                      ELSE RowSource.pricing
    /\ \A i \in 5 .. 28 : fn_result[i] = RowSource.value[FieldOfColumn(i)]

\* the row holds an error text in the first analysis column and 23 empty
\* strings after it
DegradedRow ==
    /\ fn_result[1] = NowCell
    /\ fn_result[4] = EmptyCell
    /\ Len(fn_result[5]) = 2 /\ fn_result[5][1] = "processing error"
    /\ \A i \in 6 .. 28 : fn_result[i] = EmptyCell

C21_FullWitness ==
    /\ fn_call.fn = "convert_json_to_row"
    /\ fn_call.doc.full_result.strs = FieldNames
    /\ fn_call.doc.pricing_url = "string"
    /\ fn_result[28] = ValueOf("notes")

----------------------------------------------------------------------------
(* URL normalisation *)

\* C22: normalize_url(normalize_url(s)) = normalize_url(s) for every string
\* s, and an empty or whitespace-only s gives the empty string
C22_Idempotent ==
    (fn_call.fn = "normalize_url")
        => /\ fn_result.twice = fn_result.once
           /\ (\A i \in DOMAIN fn_call.s : fn_call.s[i] = " ")
                => fn_result.once = <<>>

----------------------------------------------------------------------------
(* Concurrent audits of one user *)

\* the steps of run_audit after its quota check has passed
PastCheck == {"fetch", "analyze", "ra_lookup", "wod_lookup", "wod_save",
              "ra_increment"}

\* C23: with the audits of a user running concurrently and set_limit never
\* called, current counts the completed audits and can exceed max_limit, but
\* by no more than the number of audits that can be in flight less one
C23_Overshoot ==
    \A u \in Users :
        (~limitSet[u] /\ users_limits[u].exists)
            => /\ users_limits[u].max_limit = default_user_limit
               /\ users_limits[u].current = okRuns[u]
               /\ users_limits[u].current
                    <= users_limits[u].max_limit + Cardinality(TaskIds) - 1

\* current has passed max_limit
C23_Witness ==
    \E u \in Users :
        /\ users_limits[u].exists /\ ~limitSet[u]
        /\ users_limits[u].current > users_limits[u].max_limit

\* two audits of one user have passed can_run with current = max_limit - 1
\* and neither has completed
C23_BothPassed ==
    \E p, q \in TaskIds :
        /\ p # q
        /\ procs[p].user = procs[q].user
        /\ procs[p].pc \in PastCheck /\ procs[q].pc \in PastCheck
        /\ users_limits[procs[p].user].current
                = users_limits[procs[p].user].max_limit - 1

----------------------------------------------------------------------------
(* The retry policies *)

RetryCalled == fn_call.fn = "retry"
RetryDone == RetryCalled /\ fn_result.pc = "done"

\* the outcome of the last execution of the operation's body
LastOutcome == fn_call.outcomes[fn_result.runs]

\* C24: a call through a retry policy executes the wrapped operation at most
\* stop_after_attempt = 2 times, ends, and when its last execution failed
\* the caller gets that failure
C24_Bounded ==
    /\ [](RetryCalled
            => /\ fn_result.runs <= 2
               /\ fn_result.attempt_number <= stop_after_attempt
               /\ (fn_result.pc = "done")
                    => /\ fn_result.runs >= 1
                       /\ (LastOutcome \in Failures)
                            => fn_result.result \in Failures
                                                    \cup {"RetryError"}
                       /\ (LastOutcome = "ok") => fn_result.result = "ok")
    /\ (RetryCalled ~> RetryDone)

\* a call whose operation failed has ended with that failure
C24_Witness ==
    /\ RetryDone
    /\ LastOutcome \in Failures
    /\ fn_result.result = LastOutcome

\* the failures the first-attempt retry of http_fetch is stated for
NetworkErrors == {"RequestError", "TimeoutException", "HTTPStatusError"}

\* C25: when the first execution of http_fetch fails with a network error
\* the request is executed exactly once more and the outcome of that second
\* execution is the caller's; any other failure reaches the caller after one
\* execution
C25_RetryOnce ==
    (RetryDone /\ fn_call.op = "http_fetch")
        => IF fn_call.outcomes[1] \in NetworkErrors
           THEN /\ fn_result.runs = 2
                /\ (fn_call.outcomes[2] = "ok") => fn_result.result = "ok"
           ELSE /\ fn_result.runs = 1
                /\ fn_result.result = fn_call.outcomes[1]

\* the rows of the worksheet that are the header row
HeaderRowsAt == {i \in 1..Len(fn_result) : fn_result[i] = SHEET_HEADERS}

\* the last call was ensure_headers or write_row and it returned
SheetCall == fn_call.fn \in {"ensure_headers", "write_row"}

\* C26: ensure_headers leaves a worksheet with a non-empty first row as it
\* is, and after any calls of ensure_headers and write_row on a worksheet
\* that was empty when first opened the header row occurs at most once, at
\* row 1, with every other row a data row after it; a write_row whose
\* gspread calls answer appends its row below a mismatched first row too
C26_Headers ==
    /\ (fn_call.fn = "ensure_headers" /\ row_values(fn_call.before, 1) # <<>>)
          => fn_result = fn_call.before
    /\ (SheetCall /\ fn_call.initial = <<>> /\ fn_result # <<>>)
          => /\ HeaderRowsAt = {1}
             /\ \A i \in 2..Len(fn_result) : fn_result[i] = AppendedRow
    /\ (fn_call.fn = "write_row" /\ ~fn_call.raised)
          => /\ Len(fn_result) >= 1
             /\ fn_result[Len(fn_result)] = AppendedRow

\* C26, the part that holds: when the first row can be read, ensure_headers
\* inserts the header row exactly for an empty first row, and write_row
\* appends below a first row that differs from the expected header
C26_ReadableFirstRow ==
    /\ (fn_call.fn = "ensure_headers" /\ fn_call.api.open /\ fn_call.api.read
          /\ fn_call.api.insert)
          => fn_result = IF row_values(fn_call.before, 1) = <<>>
                         THEN insert_row(fn_call.before, SHEET_HEADERS, 1)
                         ELSE fn_call.before
    /\ (fn_call.fn = "write_row" /\ ~fn_call.raised /\ fn_call.api.read
          /\ row_values(fn_call.before, 1) = MismatchedHeaders)
          => fn_result = append_row(fn_call.before, AppendedRow)

\* the header row was inserted above a header row already there
C26_DuplicateHeader ==
    /\ SheetCall
    /\ fn_call.initial = <<>>
    /\ Len(fn_result) >= 2
    /\ fn_result[1] = SHEET_HEADERS
    /\ fn_result[2] = SHEET_HEADERS

\* the flush started by the binding of user u is still running
Flushing(u) ==
    /\ handler.kind = "sheet_handler"
    /\ handler.user = u
    /\ handler.pc \in FlushPcs

\* C27: with no storage or spreadsheet failure, a user whose binding is
\* stored and whose flush has finished has no unwritten Pending Result, at
\* the end of the flush and at any later time, whatever audits were in
\* flight while the sheet was being connected
C27_NothingLeft ==
    \A u \in Users :
        (faults = 0 /\ users_settings[u] # None /\ ~Flushing(u))
            => fetch_unwritten_results(pending_results, u) = <<>>

\* the flush of the new binding has finished with nothing failed, and the
\* result of an audit that looked the binding up before it was stored has
\* been queued
C27_LeftBehind ==
    \E p \in TaskIds :
        /\ faults = 0
        /\ procs[p].kind = "run_audit"
        /\ procs[p].pend_added = 1
        /\ ~procs[p].user_has_sheet
        /\ users_settings[procs[p].user] # None
        /\ ~Flushing(procs[p].user)
        /\ fetch_unwritten_results(pending_results, procs[p].user) # <<>>

\* C28: a run_audit that returns ok reports written_now = true exactly when
\* its write_or_defer appended the row to the user's sheet, and written_now
\* = false exactly when it stored the result as a Pending Result
C28_WrittenNow ==
    \A p \in TaskIds :
        (procs[p].kind = "run_audit" /\ procs[p].pc = "done" /\ procs[p].ok)
            => /\ procs[p].written_now <=> procs[p].rows_appended = 1
               /\ ~procs[p].written_now <=> procs[p].pend_added = 1

\* with nothing failed, the binding was stored between the lookup of
\* run_audit and the lookup of write_or_defer: the row is in the sheet and
\* the result says it was not written
C28_Misreported ==
    \E p \in TaskIds :
        /\ faults = 0
        /\ procs[p].kind = "run_audit" /\ procs[p].pc = "done" /\ procs[p].ok
        /\ ~procs[p].written_now
        /\ procs[p].rows_appended = 1
        /\ procs[p].pend_added = 0

\* the rows, over all sheets, appended for the Pending Result with this id
AppendedFor(id) ==
    UNION { {<<s, i>> : i \in {j \in DOMAIN sheets[s] : sheets[s][j].src = id}} :
            s \in SheetIds }

\* C29: between the calls of flush_pending_to_user_sheet, whatever write_row
\* or mark_written calls failed in them, the row of a Pending Result is in
\* the sheets at most once, and the record has written = 1 exactly when its
\* row has been appended
C29_AtMostOnce ==
    (handler.pc \notin FlushPcs)
        => \A i \in DOMAIN pending_results :
              LET r == pending_results[i] IN
              /\ Cardinality(AppendedFor(r.id)) <= 1
              /\ r.written = 1 <=> AppendedFor(r.id) # {}

\* mark_written failed after the row was appended, and a second flush has
\* appended the row of the same Pending Result again
C29_AppendedTwice ==
    /\ handler.pc \notin FlushPcs
    /\ \E i \in DOMAIN pending_results :
          Cardinality(AppendedFor(pending_results[i].id)) = 2

\* C30: a run_audit that returns reason "limit" has read, in its quota
\* check, a stored current that is not below the stored max_limit; no
\* storage failure in the check is turned into that answer
C30_LimitMeansLimit ==
    (RunAuditDone /\ ~task.ok /\ task.reason = "limit")
        => /\ ~task.check_fault
           /\ users_limits[task.user].exists
           /\ users_limits[task.user].current
                 >= users_limits[task.user].max_limit

\* the quota check failed in storage for a user with quota left, and
\* run_audit has answered "limit"
C30_FaultAsLimit ==
    /\ RunAuditDone /\ ~task.ok /\ task.reason = "limit"
    /\ task.check_fault
    /\ users_limits[task.user].exists
    /\ users_limits[task.user].current < users_limits[task.user].max_limit

====
